---- MODULE Spec2Model ----
(***************************************************************************)
(* Model of asg-rolling-upgrade (script.py): the cloud facade AwsManager,  *)
(* the comparator InstanceConfigComparator and the convergence loop of     *)
(* RollingUpgradeManager, run against an auto-scaling provider that        *)
(* removes terminated instances and launches replacements on its own.      *)
(* The readiness prober InstanceSshManager, direct and tunnelled, is       *)
(* modelled as an object of its own (SpecProber); SpecCalls applies single *)
(* functions of the script to given inputs.                                *)
(*                                                                         *)
(* Encoding.  Python dicts and objects are TLA+ functions/records: a key   *)
(* or attribute is absent when it is not in the DOMAIN.  None is the       *)
(* string None.  Security-group ids, device names and launch times are     *)
(* naturals (sg-1 is 1, sda1 is 1), so that sorted() can order them.       *)
(***************************************************************************)
EXTENDS Naturals, Sequences, FiniteSets, TLC

VARIABLES
    groups,               \* provider: auto-scaling groups, in describe order
    launch_config,        \* provider: the launch configuration of the groups
    inst,                 \* provider: instance id -> [state]
    unreplaced,           \* provider: really terminated ids not yet replaced
    slug,                 \* --limit, the asg_slug argument
    dry_run,              \* AwsManager._do_dry_run
    max_wait_attempts,    \* RollingUpgradeManager._max_wait_attempts
    pc,                   \* position of perform_rolling_upgrade_where_needed
    asg,                  \* the group found by _get_single_asg
    config,               \* the launch configuration fetched once
    current_attempts,     \* wait_for_instances: current_attempts
    instances,            \* wait_for_instances: instances (last listing)
    probe_idx,            \* are_all_instances_ready: position in the for loop
    asg_instances,        \* get_instances_to_upgrade: asg_instances
    cmp_idx,              \* get_instances_to_upgrade: position in the for loop
    instances_to_upgrade, \* get_instances_to_upgrade: the set being built
    victim,               \* perform_rolling_upgrade_where_needed: instance
    outcome,              \* how the process ended: exception or exit status
    throttled,            \* throttling answers absorbed by the retry decorator
    hist,                 \* history of calls made, kept for the properties
    call,                 \* one call of a function: op, args, result
    ssh_manager           \* RollingUpgradeManager._instance_manager, the prober

ctl_vars == <<pc, asg, config, current_attempts, instances, probe_idx,
              asg_instances, cmp_idx, instances_to_upgrade, victim,
              outcome, throttled>>
env_vars == <<groups, launch_config, inst, unreplaced>>
arg_vars == <<slug, dry_run, max_wait_attempts>>
vars == <<groups, launch_config, inst, unreplaced, slug, dry_run, max_wait_attempts, pc, asg,
          config, current_attempts, instances, probe_idx, asg_instances,
          cmp_idx, instances_to_upgrade, victim, outcome, throttled, hist,
          call, ssh_manager>>

----------------------------------------------------------------------------
(* Bounds of the model *)

MaxLaunches == 2        \* instances the provider launches during a run
MaxDesired == 2         \* DesiredCapacity of the group is in 0..MaxDesired
MaxAttempts == 2        \* max_wait_attempts is in 0..MaxAttempts
MaxThrottle == 1        \* throttling answers to one retried call
MaxTerminateCalls == 2  \* terminate calls followed in one run
MaxLen == 4             \* length of the lists given to the pure functions
MaxLaunchTime == 3      \* launch times given to the pure functions
MaxForwards == 2        \* tunnels one prober starts during a run
MaxListings == 4        \* answers of the provider to one wait_for_instances
MaxFleet == 3           \* instances in a listing given to a function
MaxNotReady == 1        \* ticks of one wait in which an instance is not ready
MaxDeviations == 2      \* required fields that are not plainly set and equal
MaxSecurityGroups == 2  \* security groups of an instance or a configuration
MaxDevices == 2         \* devices of an instance or a configuration
MaxGroups == 3          \* auto-scaling groups the provider lists
MaxAnswers == 3         \* answers of the provider to one retried call

None == "None"

----------------------------------------------------------------------------
(* Python built-ins used by the script *)

\* x or '' gone wrong: the value is taken as it is
NotCoerced(x) == x

\* x or '' : None and the empty string are falsy
OrEmpty(x) == IF x = None \/ x = "" THEN "" ELSE x

Range(s) == {s[i] : i \in 1..Len(s)}

\* one step of a stable insertion sort on <<key, value>> pairs: x goes
\* behind every pair whose key is not greater
RECURSIVE InsertPair(_, _)
InsertPair(x, s) ==
    IF s = <<>> THEN <<x>>
    ELSE IF x[1] < Head(s)[1] THEN <<x>> \o s
    ELSE <<Head(s)>> \o InsertPair(x, Tail(s))

RECURSIVE SortPairs(_)
SortPairs(s) ==
    IF s = <<>> THEN <<>>
    ELSE InsertPair(s[Len(s)], SortPairs(SubSeq(s, 1, Len(s) - 1)))

\* sorted() gone wrong: the list is left as given
unsorted(s) == s

\* sorted(list) on naturals
sorted(s) ==
    LET p == SortPairs([i \in 1..Len(s) |-> <<s[i], s[i]>>])
    IN  [i \in 1..Len(s) |-> p[i][2]]

\* sorted(set) on naturals
RECURSIVE SetToSortedSeq(_)
SetToSortedSeq(S) ==
    IF S = {} THEN <<>>
    ELSE LET m == CHOOSE x \in S : \A y \in S : x <= y
         IN  <<m>> \o SetToSortedSeq(S \ {m})

\* all the orders in which a set can be enumerated (a Python 2 set or dict
\* fixes one by hashing, which the script does not control)
Orders(S) ==
    {s \in [1..Cardinality(S) -> S] : \A x \in S : \E i \in DOMAIN s : s[i] = x}

----------------------------------------------------------------------------
(* InstanceSshManager and InstanceSshManagerWithSshTunnel *)

\* the attribute _ssh_tunnel: the class never initialises it, so it has no
\* binding until line 333 assigns a forwarder; line 350 rebinds it to None
Unbound == [bound |-> "unbound", id |-> 0]
TunnelNone == [bound |-> "None", id |-> 0]
Forwarder(id) == [bound |-> "forwarder", id |-> id]

\* lines 252-266: the prober get_instance builds. session is the state of
\* the paramiko client, forwards the tunnels started and not yet closed
InstanceSshManager(use_bastion_tunnel) ==
    [use_bastion_tunnel |-> use_bastion_tunnel, connected |-> FALSE,
     ssh_tunnel |-> Unbound, session |-> "closed", forwards |-> {},
     started |-> 0]

\* what the network lets one call do: the tunnel comes up, or lines
\* 353-360 raise before a forward runs, or line 362 or 363 raises once it
\* was started; the client's connect and exec_command succeed or raise;
\* the exit status of the boot-marker check
SshOutcomes ==
    [tunnel : {"up", "start_raises", "poll_raises"},
     connect : {"ok", "error"}, exec : {"ok", "error"}, exit_status : 0..1]

\* lines 352-364
get_ssh_tunnel(m, env) ==
    IF env.tunnel = "start_raises"
    THEN [m |-> m, raised |-> "Exception", tunnel |-> Unbound]
    ELSE LET id == m.started + 1
             up == [m EXCEPT !.started = id, !.forwards = @ \cup {id}]
         IN  IF env.tunnel = "poll_raises"
             THEN [m |-> up, raised |-> "Exception", tunnel |-> Unbound]
             ELSE [m |-> up, raised |-> "", tunnel |-> Forwarder(id)]

\* lines 281-287 and, with a bastion, 332-344
create_connection(m, env) ==
    IF ~m.use_bastion_tunnel
    THEN IF env.connect = "ok"
         THEN [m |-> [m EXCEPT !.session = "open"], raised |-> ""]
         ELSE [m |-> m, raised |-> "SSHException"]
    ELSE LET t == get_ssh_tunnel(m, env)
             assigned == [t.m EXCEPT !.ssh_tunnel = t.tunnel]
         IN  IF t.raised # "" THEN [m |-> t.m, raised |-> t.raised]
             ELSE IF env.connect = "ok"
             THEN [m |-> [assigned EXCEPT !.session = "open"], raised |-> ""]
             ELSE [m |-> assigned, raised |-> "SSHException"]

\* lines 276-277 gone wrong: no check of _connected
connect_unguarded(m, env) ==
    LET c == create_connection(m, env)
    IN  IF c.raised # "" THEN c
        ELSE [m |-> [c.m EXCEPT !.connected = TRUE], raised |-> ""]

\* lines 268-279
connect(m, env) ==
    IF m.connected THEN [m |-> m, raised |-> "IOError"]
    ELSE LET c == create_connection(m, env)
         IN  IF c.raised # "" THEN c
             ELSE [m |-> [c.m EXCEPT !.connected = TRUE], raised |-> ""]

\* line 322 gone wrong: _connected is left as it was
close_connections_keeps_connected(m) ==
    LET closed == [m EXCEPT !.session = "closed"]
    IN  IF ~m.use_bastion_tunnel THEN [m |-> closed, raised |-> ""]
        ELSE IF m.ssh_tunnel.bound # "forwarder"
        THEN [m |-> closed, raised |-> "AttributeError"]
        ELSE [m |-> [closed EXCEPT !.forwards = @ \ {m.ssh_tunnel.id},
                                   !.ssh_tunnel = TunnelNone],
              raised |-> ""]

\* lines 319-322 and, with a bastion, 346-350: there the attribute
\* _ssh_tunnel is read after the client was closed, and .close() is called
\* on whatever it holds
close_connections(m) ==
    LET closed == [m EXCEPT !.session = "closed", !.connected = FALSE]
    IN  IF ~m.use_bastion_tunnel THEN [m |-> closed, raised |-> ""]
        ELSE IF m.ssh_tunnel.bound # "forwarder"
        THEN [m |-> closed, raised |-> "AttributeError"]
        ELSE [m |-> [closed EXCEPT !.forwards = @ \ {m.ssh_tunnel.id},
                                   !.ssh_tunnel = TunnelNone],
              raised |-> ""]

\* lines 289-317: the bare except turns every exception of the try block
\* into False; an exception of the finally block replaces the return
is_ready(m, env) ==
    LET c == connect(m, env)
        booted == c.raised = "" /\ env.exec = "ok" /\ env.exit_status = 0
        f == close_connections(c.m)
    IN  [m |-> f.m, raised |-> f.raised,
         value |-> IF f.raised = "" THEN booted ELSE FALSE]

----------------------------------------------------------------------------
(* InstanceConfigComparator *)

Raised(e) == [raised |-> e, changes |-> <<>>]
Returned(c) == [raised |-> "", changes |-> c]

\* lines 417-418 gone wrong: a missing attribute or key reads as ''
check_attr_lenient(instance, asg_launch_config, instance_attr_name, config_attr_name) ==
    LET instance_attr == IF instance_attr_name \in DOMAIN instance
                         THEN instance[instance_attr_name] ELSE ""
        config_attr == IF config_attr_name \in DOMAIN asg_launch_config
                       THEN asg_launch_config[config_attr_name] ELSE ""
    IN  [raised |-> "",
         changes |-> IF config_attr \notin {"", "None"}
                        /\ instance_attr # config_attr
                     THEN <<config_attr_name>> ELSE <<>>]

\* line 424 gone wrong: an empty configured value is compared like any other
check_attr_unsuppressed(instance, asg_launch_config, instance_attr_name, config_attr_name) ==
    IF instance_attr_name \notin DOMAIN instance THEN Raised("AttributeError")
    ELSE IF config_attr_name \notin DOMAIN asg_launch_config
         THEN Raised("AttributeError")
    ELSE Returned(IF OrEmpty(instance[instance_attr_name])
                         # OrEmpty(asg_launch_config[config_attr_name])
                  THEN <<config_attr_name>> ELSE <<>>)

\* check_attr, lines 415-425: getattr raises AttributeError on a missing
\* attribute, a KeyError of the launch configuration is turned into one
check_attr(instance, asg_launch_config, instance_attr_name, config_attr_name) ==
    IF instance_attr_name \notin DOMAIN instance THEN Raised("AttributeError")
    ELSE IF config_attr_name \notin DOMAIN asg_launch_config
         THEN Raised("AttributeError")
    ELSE LET instance_attr == OrEmpty(instance[instance_attr_name])
             config_attr == OrEmpty(asg_launch_config[config_attr_name])
         IN  Returned(IF config_attr # "" /\ instance_attr # config_attr
                      THEN <<config_attr_name>> ELSE <<>>)

RequiredAttrs ==
    << <<"image_id", "ImageId">>, <<"instance_type", "InstanceType">>,
       <<"kernel_id", "KernelId">>, <<"key_name", "KeyName">> >>

\* the four check_attr calls of lines 427-430: the first that raises ends
\* the comparison
RECURSIVE check_attrs(_, _, _)
check_attrs(instance, asg_launch_config, k) ==
    IF k > Len(RequiredAttrs) THEN Returned(<<>>)
    ELSE LET r == check_attr(instance, asg_launch_config,
                             RequiredAttrs[k][1], RequiredAttrs[k][2])
         IN  IF r.raised # "" THEN r
             ELSE LET rest == check_attrs(instance, asg_launch_config, k + 1)
                  IN  IF rest.raised # "" THEN rest
                      ELSE Returned(r.changes \o rest.changes)

\* lines 432-438 gone wrong: the profile is compared like a required field,
\* an empty configured value never giving a change
iam_changes_suppressed(instance, asg_launch_config) ==
    LET instance_iam_profile ==
            IF "iam_instance_profile" \in DOMAIN instance
            THEN OrEmpty(instance["iam_instance_profile"]) ELSE ""
        config_iam_profile ==
            IF "IamInstanceProfile" \in DOMAIN asg_launch_config
            THEN OrEmpty(asg_launch_config["IamInstanceProfile"]) ELSE ""
    IN  IF config_iam_profile # "" /\ instance_iam_profile # config_iam_profile
        THEN <<"IamInstanceProfile">> ELSE <<>>

\* lines 432-438: getattr and get with the default '', then or ''
iam_changes(instance, asg_launch_config) ==
    LET instance_iam_profile ==
            IF "iam_instance_profile" \in DOMAIN instance
            THEN OrEmpty(instance["iam_instance_profile"]) ELSE ""
        config_iam_profile ==
            IF "IamInstanceProfile" \in DOMAIN asg_launch_config
            THEN OrEmpty(asg_launch_config["IamInstanceProfile"]) ELSE ""
    IN  IF instance_iam_profile # config_iam_profile
        THEN <<"IamInstanceProfile">> ELSE <<>>

\* lines 371-440
compare_to_config(instance, asg_launch_config, instance_userdata) ==
    IF "UserData" \notin DOMAIN asg_launch_config THEN Raised("KeyError")
    ELSE IF "security_groups" \notin DOMAIN instance THEN Raised("AttributeError")
    ELSE IF "SecurityGroups" \notin DOMAIN asg_launch_config THEN Raised("KeyError")
    ELSE
    LET userdata_change ==
            IF instance_userdata # asg_launch_config["UserData"]
            THEN <<"UserData">> ELSE <<>>
        instance_sg == sorted([i \in 1..Len(instance["security_groups"]) |->
                                  instance["security_groups"][i].GroupId])
        config_sg == sorted(asg_launch_config["SecurityGroups"])
        sg_change == IF instance_sg # config_sg
                     THEN <<"SecurityGroups">> ELSE <<>>
        attrs == check_attrs(instance, asg_launch_config, 1)
        iam_change == iam_changes(instance, asg_launch_config)
    IN  IF attrs.raised # "" THEN attrs
        ELSE Returned(userdata_change \o sg_change \o attrs.changes
                      \o iam_change)

\* line 476: 'DeviceName:%s' % dev, for the devices sda1, sda2, ...
DeviceNameChange(dev) ==
    <<"DeviceName:sda1", "DeviceName:sda2", "DeviceName:sda3",
      "DeviceName:sda4">>[dev]

\* lines 486, 489 and 493: device_name + '.BlockDeviceMappings.Ebs.' + the
\* name of the attribute
AttributeChange(device_name, attribute) ==
    [VolumeType |->
        <<"sda1.BlockDeviceMappings.Ebs.VolumeType",
          "sda2.BlockDeviceMappings.Ebs.VolumeType",
          "sda3.BlockDeviceMappings.Ebs.VolumeType",
          "sda4.BlockDeviceMappings.Ebs.VolumeType">>,
     Size |->
        <<"sda1.BlockDeviceMappings.Ebs.Size",
          "sda2.BlockDeviceMappings.Ebs.Size",
          "sda3.BlockDeviceMappings.Ebs.Size",
          "sda4.BlockDeviceMappings.Ebs.Size">>,
     DeleteOnTermination |->
        <<"sda1.BlockDeviceMappings.Ebs.DeleteOnTermination",
          "sda2.BlockDeviceMappings.Ebs.DeleteOnTermination",
          "sda3.BlockDeviceMappings.Ebs.DeleteOnTermination",
          "sda4.BlockDeviceMappings.Ebs.DeleteOnTermination">>
    ][attribute][device_name]

\* lines 485-495 gone wrong: the size is compared before the type
volume_changes_size_first(device_name, instance_volume, config_volume) ==
    (IF instance_volume.Size # config_volume.Ebs.VolumeSize
     THEN <<AttributeChange(device_name, "Size")>>
     ELSE <<>>)
    \o (IF instance_volume.VolumeType # config_volume.Ebs.VolumeType
        THEN <<AttributeChange(device_name, "VolumeType")>>
        ELSE <<>>)
    \o (IF instance_volume.Attachments[1].DeleteOnTermination
             # config_volume.Ebs.DeleteOnTermination
        THEN <<AttributeChange(device_name, "DeleteOnTermination")>>
        ELSE <<>>)

\* lines 485-495: the three attribute comparisons of one device
volume_changes(device_name, instance_volume, config_volume) ==
    (IF instance_volume.VolumeType # config_volume.Ebs.VolumeType
     THEN <<AttributeChange(device_name, "VolumeType")>>
     ELSE <<>>)
    \o (IF instance_volume.Size # config_volume.Ebs.VolumeSize
        THEN <<AttributeChange(device_name, "Size")>>
        ELSE <<>>)
    \o (IF instance_volume.Attachments[1].DeleteOnTermination
             # config_volume.Ebs.DeleteOnTermination
        THEN <<AttributeChange(device_name, "DeleteOnTermination")>>
        ELSE <<>>)

RECURSIVE volume_loop(_, _, _)
volume_loop(order, instance_volumes_dict, config_volumes_dict) ==
    IF order = <<>> THEN <<>>
    ELSE volume_changes(Head(order), instance_volumes_dict[Head(order)],
                        config_volumes_dict[Head(order)])
         \o volume_loop(Tail(order), instance_volumes_dict, config_volumes_dict)

\* lines 469-470 gone wrong: the single default volume is not set aside
compare_volumes_config_no_default(instance_volumes_dict, config_volumes_dict, order) ==
    LET device_name_differences ==
            ((DOMAIN instance_volumes_dict) \ (DOMAIN config_volumes_dict))
            \cup ((DOMAIN config_volumes_dict) \ (DOMAIN instance_volumes_dict))
        names == SetToSortedSeq(device_name_differences)
    IN  IF device_name_differences # {}
        THEN [i \in 1..Len(names) |-> DeviceNameChange(names[i])]
        ELSE volume_loop(order, instance_volumes_dict, config_volumes_dict)

\* lines 472-473 gone wrong: only the devices the configuration lacks count
compare_volumes_config_one_sided(instance_volumes_dict, config_volumes_dict, order) ==
    IF Cardinality(DOMAIN config_volumes_dict) = 0
       /\ Cardinality(DOMAIN instance_volumes_dict) = 1
    THEN <<>>
    ELSE LET device_name_differences ==
                 (DOMAIN instance_volumes_dict) \ (DOMAIN config_volumes_dict)
             names == SetToSortedSeq(device_name_differences)
         IN  IF device_name_differences # {}
             THEN [i \in 1..Len(names) |-> DeviceNameChange(names[i])]
             ELSE volume_loop(order, instance_volumes_dict, config_volumes_dict)

\* compare_volumes_config, lines 442-497; order is the order in which
\* iteritems() yields the devices of instance_volumes_dict
compare_volumes_config(instance_volumes_dict, config_volumes_dict, order) ==
    IF Cardinality(DOMAIN config_volumes_dict) = 0
       /\ Cardinality(DOMAIN instance_volumes_dict) = 1
    THEN <<>>
    ELSE LET device_name_differences ==
                 ((DOMAIN instance_volumes_dict) \ (DOMAIN config_volumes_dict))
                 \cup ((DOMAIN config_volumes_dict) \ (DOMAIN instance_volumes_dict))
             names == SetToSortedSeq(device_name_differences)
         IN  IF device_name_differences # {}
             THEN [i \in 1..Len(names) |-> DeviceNameChange(names[i])]
             ELSE volume_loop(order, instance_volumes_dict, config_volumes_dict)

\* lines 204-219 gone wrong: the mappings are keyed by their position
config_volumes_to_dict_by_position(block_device_mapping_config) ==
    [i \in 1..Len(block_device_mapping_config) |->
        block_device_mapping_config[i]]

\* AwsManager.config_volumes_to_dict: a later mapping of the same device
\* name replaces an earlier one
config_volumes_to_dict(block_device_mapping_config) ==
    [d \in {block_device_mapping_config[i].DeviceName :
                i \in 1..Len(block_device_mapping_config)} |->
        LET last == CHOOSE i \in 1..Len(block_device_mapping_config) :
                       /\ block_device_mapping_config[i].DeviceName = d
                       /\ \A j \in (i + 1)..Len(block_device_mapping_config) :
                              block_device_mapping_config[j].DeviceName # d
        IN  block_device_mapping_config[last]]

----------------------------------------------------------------------------
(* The provider's data *)

web == <<"w", "e", "b">>
worker == <<"w", "o", "r", "k">>
db == <<"d", "b">>

Group(name, desired) ==
    [AutoScalingGroupName |-> name, DesiredCapacity |-> desired,
     LaunchConfigurationName |-> "lc"]

\* the group lists the provider may hold; the instances of the model all
\* carry the tag aws:autoscaling:groupName = web
GroupLists(desired) ==
    { <<>>,
      <<Group(db, 0), Group(web, desired)>>,
      <<Group(web, desired), Group(worker, 0)>> }

Slugs == { <<"w">>, <<"d">> }

LcGood ==
    [LaunchConfigurationName |-> "lc", ImageId |-> "ami-2",
     InstanceType |-> "t2.micro", KernelId |-> "", KeyName |-> "key",
     IamInstanceProfile |-> "role", SecurityGroups |-> <<1, 2>>,
     UserData |-> "B",
     BlockDeviceMappings |->
        << [DeviceName |-> 1,
            Ebs |-> [VolumeType |-> "gp2", VolumeSize |-> 8,
                     DeleteOnTermination |-> TRUE]] >>]

\* a launch configuration answered without the KernelId key
LcNoKernelId ==
    [k \in (DOMAIN LcGood) \ {"KernelId"} |-> LcGood[k]]

LaunchConfigs == {LcGood, LcNoKernelId}

Volume(type, size, device) ==
    [VolumeType |-> type, Size |-> size,
     Attachments |-> << [Device |-> device, DeleteOnTermination |-> TRUE] >>]

\* an instance as launched from LcGood, and three that drifted from it
Shape(s) ==
    [image_id |-> IF s = "old_image" THEN "ami-1" ELSE "ami-2",
     instance_type |-> "t2.micro", kernel_id |-> None, key_name |-> "key",
     iam_instance_profile |-> "role",
     security_groups |-> << [GroupId |-> 2], [GroupId |-> 1] >>,
     user_data |-> IF s = "old_userdata" THEN "A" ELSE "B",
     volumes |-> IF s = "old_volume"
                 THEN (1 :> Volume("standard", 8, 1))
                 ELSE (1 :> Volume("gp2", 8, 1))]

\* the instances a run may find at its start, by id
Catalogue ==
    << [shape |-> "current", launch_time |-> 1],
       [shape |-> "old_image", launch_time |-> 2],
       [shape |-> "old_volume", launch_time |-> 2],
       [shape |-> "old_userdata", launch_time |-> 3] >>

InstIds == 1..(Len(Catalogue) + MaxLaunches)

\* the boto3 instance object of id i; launched instances follow LcGood
Instance(i) ==
    LET c == IF i <= Len(Catalogue) THEN Catalogue[i]
             ELSE [shape |-> "current", launch_time |-> Len(Catalogue) + i]
    IN  [id |-> i, launch_time |-> c.launch_time] @@ Shape(c.shape)

Listed(i) == inst[i].state \in {"running", "terminating"}
InService(i) == inst[i].state = "running"

TargetDesired ==
    IF \E k \in 1..Len(groups) : groups[k].AutoScalingGroupName = web
    THEN (CHOOSE g \in Range(groups) : g.AutoScalingGroupName = web).DesiredCapacity
    ELSE 0

----------------------------------------------------------------------------
(* AwsManager *)

\* the text of an exception's message, character by character
Text(word) ==
    CASE word = "throttling" ->
            <<"t", "h", "r", "o", "t", "t", "l", "i", "n", "g">>
      [] word = "Throttling" ->
            <<"T", "h", "r", "o", "t", "t", "l", "i", "n", "g">>
      [] word = "different error" ->
            <<"d", "i", "f", "f", "e", "r", "e", "n", "t", " ",
              "e", "r", "r", "o", "r">>
      [] word = "occurred: " ->
            <<"o", "c", "c", "u", "r", "r", "e", "d", ":", " ">>
      [] word = "expected 1" ->
            <<"e", "x", "p", "e", "c", "t", "e", "d", " ", "1">>
      [] word = "missing" ->
            <<"m", "i", "s", "s", "i", "n", "g">>
      [] word = "dry run" ->
            <<"d", "r", "y", " ", "r", "u", "n">>
      [] OTHER -> <<>>

\* botocore.exceptions.ClientError: message is the text the exception was
\* built with, code the Error.Code of the response
ClientError(message, code) ==
    [class |-> "ClientError", message |-> message, code |-> code]

NoError == [class |-> "", message |-> <<>>, code |-> ""]
Throttling == ClientError(Text("throttling"), "Throttling")
OtherError == ClientError(Text("different error"), "TestError")
DryRunOperation == ClientError(Text("dry run"), "DryRunOperation")

\* the errors any call of the provider's API may answer
ApiErrors == {Throttling, OtherError}

\* sub in s, on texts
Contains(sub, s) ==
    \E i \in 1..(Len(s) + 1) :
        /\ i + Len(sub) - 1 <= Len(s)
        /\ SubSeq(s, i, i + Len(sub) - 1) = sub

\* lines 30-37 gone wrong: every client error is retried
retry_if_client_error(exception) == exception.class = "ClientError"

\* lines 30-37; 'throttling' in exception.message
retry_if_throttled(exception) ==
    /\ exception.class = "ClientError"
    /\ Contains(Text("throttling"), exception.message)

\* the answer that ends a retried call: the decorator of lines 54-58 and
\* 143-147 calls the function again for as long as retry_on_exception is
\* true of what it raised, and has no stop condition; answers are what the
\* function raises or returns (NoError) call after call, k the call made
RECURSIVE retry(_, _)
retry(answers, k) ==
    IF k > Len(answers) THEN [attempts |-> k - 1, raised |-> NoError, done |-> FALSE]
    ELSE IF answers[k] # NoError /\ retry_if_throttled(answers[k])
         THEN retry(answers, k + 1)
    ELSE [attempts |-> k, raised |-> answers[k], done |-> TRUE]

\* re.match of the pattern ^slug on a name: slug is a prefix of name
re_match(asg_regex_pat, name) ==
    LET lit == IF asg_regex_pat # <<>> /\ Head(asg_regex_pat) = "^"
               THEN Tail(asg_regex_pat) ELSE asg_regex_pat
    IN  /\ Len(lit) <= Len(name)
        /\ SubSeq(name, 1, Len(lit)) = lit

\* lines 75-85: the pages of the paginator, chained
RECURSIVE get_all_as_groups(_)
get_all_as_groups(response) ==
    IF response = <<>> THEN <<>>
    ELSE Head(response).AutoScalingGroups \o get_all_as_groups(Tail(response))

RECURSIVE filter_asgs(_, _)
filter_asgs(asg_regex_pat, all_asgs) ==
    IF all_asgs = <<>> THEN <<>>
    ELSE (IF re_match(asg_regex_pat, Head(all_asgs).AutoScalingGroupName)
          THEN <<Head(all_asgs)>> ELSE <<>>)
         \o filter_asgs(asg_regex_pat, Tail(all_asgs))

\* lines 102-107 gone wrong: the first match stands for all of them
find_asg_group_first(all_asgs, asg_regex_pat) ==
    LET filtered_asgs == filter_asgs(asg_regex_pat, all_asgs)
    IN  IF Len(filtered_asgs) = 0 THEN <<>> ELSE <<filtered_asgs[1]>>

\* lines 87-107
find_asg_group(all_asgs, asg_regex_pat) ==
    LET filtered_asgs == filter_asgs(asg_regex_pat, all_asgs)
    IN  IF Len(filtered_asgs) = 0 THEN <<>>
        ELSE IF Len(filtered_asgs) > 1 THEN filtered_asgs
        ELSE <<filtered_asgs[1]>>

\* lines 109-120
get_expected_num_of_instances(g) == g.DesiredCapacity

\* lines 166-182: the running instances tagged with the group's name, as
\* ids in the provider's order
get_instances_for_asg(g) ==
    IF g.AutoScalingGroupName = web
    THEN SetToSortedSeq({i \in InstIds : Listed(i)})
    ELSE <<>>

\* line 130 gone wrong: the call goes out without the DryRun flag
terminate_flag_unset(do_dry_run) == FALSE

\* line 130: the DryRun flag the terminate call carries
terminate_dry_run_flag(do_dry_run) == do_dry_run

\* line 139 gone wrong: every client error is taken for the dry-run marker
terminate_instance_swallow(answer) == NoError

\* lines 128-141: the exception terminate_instance leaves with, given the
\* provider's answer; NoError is a normal return
terminate_instance(answer) ==
    IF answer = NoError THEN NoError
    ELSE IF answer.class = "ClientError" /\ answer.code = "DryRunOperation"
         THEN NoError
    ELSE answer

\* the answers of the provider to TerminateInstances: with the DryRun flag
\* it changes nothing and answers DryRunOperation where the call would
\* have succeeded
TerminateAnswers(flag) ==
    (IF flag THEN {DryRunOperation} ELSE {NoError}) \cup ApiErrors

----------------------------------------------------------------------------
(* RollingUpgradeManager, pure parts *)

\* line 512 gone wrong: the first of the list as given, not of the sorted one
get_oldest_instance_unsorted(list) == list[1]

\* lines 505-512: sorted() is stable, [0] is the first of the sorted list
get_oldest_instance(list) ==
    SortPairs([i \in 1..Len(list) |-> <<list[i].launch_time, list[i]>>])[1][2]

\* line 651 gone wrong: the volume changes come first
compare_instance_to_config_volumes_first(instance, cfg, order) ==
    LET instance_changes ==
            compare_to_config(instance, cfg, instance.user_data)
    IN  IF instance_changes.raised # "" THEN instance_changes
        ELSE IF "BlockDeviceMappings" \notin DOMAIN cfg THEN Raised("KeyError")
        ELSE Returned(compare_volumes_config(
                          instance.volumes,
                          config_volumes_to_dict(cfg["BlockDeviceMappings"]),
                          order)
                      \o instance_changes.changes)

\* lines 628-651, after the two facade calls answered; order is the
\* iteration order of the instance's volume dict
compare_instance_to_config(instance, cfg, order) ==
    LET instance_changes ==
            compare_to_config(instance, cfg, instance.user_data)
    IN  IF instance_changes.raised # "" THEN instance_changes
        ELSE IF "BlockDeviceMappings" \notin DOMAIN cfg THEN Raised("KeyError")
        ELSE Returned(instance_changes.changes \o
                 compare_volumes_config(
                     instance.volumes,
                     config_volumes_to_dict(cfg["BlockDeviceMappings"]),
                     order))

Diff(i, cfg) ==
    compare_instance_to_config(Instance(i), cfg,
        SetToSortedSeq(DOMAIN Instance(i).volumes))

\* line 670 gone wrong: every instance, or none, counts as differing
needs_upgrade_always(diffs) == TRUE

needs_upgrade_never(diffs) == FALSE

\* line 670: if len(diffs)
needs_upgrade(diffs) == Len(diffs) > 0

\* line 585 gone wrong: > for >=
wait_loop_head_strict(attempts, max_attempts, listing, expected_num_instances) ==
    IF attempts < max_attempts
    THEN IF Len(listing) > expected_num_instances
         THEN IF Len(listing) = 0 THEN "ready" ELSE "probe"
         ELSE "relist"
    ELSE "return"

\* lines 583-590: the head of the while loop of wait_for_instances, with
\* the listing in hand: where control goes next
wait_loop_head(attempts, max_attempts, listing, expected_num_instances) ==
    IF attempts < max_attempts
    THEN IF Len(listing) >= expected_num_instances
         THEN IF Len(listing) = 0 THEN "ready" ELSE "probe"
         ELSE "relist"
    ELSE "return"

\* lines 623-626 gone wrong: the loop goes on after a False
are_all_instances_ready_no_return(list, answers) ==
    [value |-> \A k \in 1..Len(list) : answers[k], probed |-> list]

\* lines 613-626, the whole loop: answers[k] is what the k-th is_ready call
\* returns; probed are the instances is_ready was called for, in order
RECURSIVE are_all_instances_ready_on(_, _)
are_all_instances_ready_on(list, answers) ==
    IF list = <<>> THEN [value |-> TRUE, probed |-> <<>>]
    ELSE IF ~Head(answers) THEN [value |-> FALSE, probed |-> <<Head(list)>>]
    ELSE LET rest == are_all_instances_ready_on(Tail(list), Tail(answers))
         IN  [value |-> rest.value, probed |-> <<Head(list)>> \o rest.probed]

\* the k-th answer of get_instances_for_asg; the provider repeats its last
ListingAt(listings, k) ==
    IF k <= Len(listings) THEN listings[k] ELSE listings[Len(listings)]

\* lines 579-608, the whole loop, with the k-th listing in hand. In the
\* first not_ready ticks that probe, the first is_ready call returns False.
\* probes holds <<tick, is_ready calls>> of every are_all_instances_ready
RECURSIVE wait_loop(_, _, _, _, _, _, _)
wait_loop(listings, max_attempts, expected, not_ready, k, current, probes) ==
    LET listing == ListingAt(listings, k)
        head == wait_loop_head(current, max_attempts, listing,
                               expected)
        answers == [i \in 1..Len(listing) |->
                       ~(i = 1 /\ Len(probes) < not_ready)]
        ready == are_all_instances_ready_on(listing, answers)
        probes_now == IF head \in {"ready", "probe"}
                      THEN Append(probes, <<k, Len(ready.probed)>>)
                      ELSE probes
    IN  IF head = "return"
        THEN [outcome |-> "return", ready |-> FALSE, listings |-> k,
              attempts |-> current, probes |-> probes]
        ELSE IF head \in {"ready", "probe"} /\ ready.value
        THEN [outcome |-> "return", ready |-> TRUE, listings |-> k,
              attempts |-> current, probes |-> probes_now]
        ELSE IF current + 1 >= max_attempts
        THEN [outcome |-> "exit", ready |-> FALSE, listings |-> k + 1,
              attempts |-> current + 1, probes |-> probes_now]
        ELSE wait_loop(listings, max_attempts, expected,
                       not_ready, k + 1, current + 1, probes_now)

wait_for_instances_on(listings, max_attempts, expected, not_ready) ==
    wait_loop(listings, max_attempts, expected, not_ready, 1, 0, <<>>)

----------------------------------------------------------------------------
(* Initial states *)

NoGroup == Group(<<>>, 0)
NoCall == [op |-> "none", arg |-> <<>>, ret |-> <<>>]
NoOutcome == [exit_status |-> 0, exception |-> NoError]

HistInit ==
    [called |-> {},             \* facade operations called so far
     terminate_calls |-> 0,     \* calls of terminate_instance
     dry_flags |-> {},          \* DryRun flags the terminate calls carried
     passed |-> {},             \* ids passed to terminate_instance
     real_terminated |-> {},    \* ids the provider really terminated
     terminate_iteration |-> 0, \* iteration of the last terminate call
     ready_since |-> FALSE,     \* a wait ended in Ready since the last terminate
     unready_terminate |-> FALSE, \* a terminate call had no Ready wait before
     late_return |-> FALSE,     \* a wait returned with attempts >= the maximum
     iteration |-> 0,           \* iterations of the while True loop begun
     cand_iteration |-> 0,      \* iteration that built instances_to_upgrade
     prev_candidates |-> <<>>]  \* <<size>> of the previous candidate set

ControllerInit ==
    /\ pc = "start"
    /\ asg = NoGroup
    /\ config = <<>>
    /\ current_attempts = 0
    /\ instances = <<>>
    /\ probe_idx = 1
    /\ asg_instances = <<>>
    /\ cmp_idx = 1
    /\ instances_to_upgrade = {}
    /\ victim = 0
    /\ outcome = NoOutcome
    /\ throttled = 0
    /\ hist = HistInit

Init ==
    /\ \E desired \in 0..MaxDesired :
          /\ groups \in GroupLists(desired)
          /\ \E fleet \in SUBSET (1..Len(Catalogue)) :
                /\ Cardinality(fleet) <= desired
                /\ inst = [i \in InstIds |->
                             IF i \in fleet
                             THEN [state |-> "running"]
                             ELSE [state |-> "none"]]
    /\ launch_config \in LaunchConfigs
    /\ unreplaced = {}
    /\ slug \in Slugs
    /\ dry_run \in BOOLEAN
    /\ max_wait_attempts \in 0..MaxAttempts
    /\ ControllerInit
    /\ call = NoCall
    \* --ssh-tunnel is left unset, its default: the direct prober
    /\ ssh_manager = InstanceSshManager(FALSE)

----------------------------------------------------------------------------
(* perform_rolling_upgrade_where_needed *)

Called(op) == hist' = [hist EXCEPT !.called = @ \cup {op}]

\* an uncaught exception ends the process with status 1
Raise(e) ==
    /\ pc' = "raised"
    /\ outcome' = [exit_status |-> 1, exception |-> e]

\* lines 550-559 (_get_single_asg) with find_asg_group and get_all_as_groups
get_single_asg ==
    /\ pc = "start"
    /\ Called("list_groups")
    /\ \/ \E e \in ApiErrors : Raise(e) /\ UNCHANGED asg
       \/ LET as_group_list == find_asg_group(groups, <<"^">> \o slug)
          IN  IF Len(as_group_list) # 1
              THEN /\ Raise([class |-> "Exception",
                             message |-> Text("expected 1"), code |-> ""])
                   /\ UNCHANGED asg
              ELSE /\ asg' = as_group_list[1]
                   /\ pc' = "get_launch_config"
                   /\ UNCHANGED outcome
    /\ UNCHANGED <<config, current_attempts, instances, probe_idx,
                   asg_instances, cmp_idx, instances_to_upgrade, victim,
                   throttled>>
    /\ UNCHANGED <<env_vars, arg_vars, call, ssh_manager>>

\* lines 143-164 and 689: the only call of the loop under the retry
\* decorator; an exception for which retry_on_exception is true is
\* swallowed and the call made again
get_launch_config_for_asg ==
    /\ pc = "get_launch_config"
    /\ Called("describe_launch_config")
    /\ \/ \E e \in ApiErrors :
             IF retry_if_throttled(e)
             THEN /\ throttled < MaxThrottle
                  /\ throttled' = throttled + 1
                  /\ UNCHANGED <<pc, outcome, config>>
             ELSE /\ Raise(e)
                  /\ throttled' = 0
                  /\ UNCHANGED config
       \/ /\ config' = launch_config
          /\ pc' = "wait_for_instances"
          /\ throttled' = 0
          /\ UNCHANGED outcome
    /\ UNCHANGED <<asg, current_attempts, instances, probe_idx,
                   asg_instances, cmp_idx, instances_to_upgrade, victim>>
    /\ UNCHANGED <<env_vars, arg_vars, call, ssh_manager>>

expected_num_instances == get_expected_num_of_instances(asg)

\* where wait_for_instances goes from the loop head. Ready is the break
\* of line 590; on return the locals of wait_for_instances are gone
AfterLoopHead(attempts, listing, h) ==
    LET next == wait_loop_head(attempts, max_wait_attempts, listing,
                               expected_num_instances)
    IN  /\ probe_idx' = 1
        /\ IF next \in {"ready", "return"}
           THEN /\ pc' = "get_instances_to_upgrade"
                /\ current_attempts' = 0
                /\ instances' = <<>>
                /\ hist' = [h EXCEPT
                      !.ready_since = @ \/ next = "ready",
                      !.late_return = @ \/ (next = "return"
                                            /\ attempts >= max_wait_attempts)]
           ELSE /\ pc' = next
                /\ current_attempts' = attempts
                /\ instances' = listing
                /\ hist' = h

\* lines 579-585 and 694-695: a new iteration of while True begins;
\* current_attempts = 0 and the first listing
wait_for_instances ==
    /\ pc = "wait_for_instances"
    /\ \/ /\ \E e \in ApiErrors : Raise(e)
          /\ hist' = [hist EXCEPT !.called = @ \cup {"list_instances"},
                                  !.iteration = @ + 1]
          /\ UNCHANGED <<current_attempts, instances, probe_idx>>
       \/ /\ AfterLoopHead(0, get_instances_for_asg(asg),
                [hist EXCEPT !.called = @ \cup {"list_instances"},
                             !.iteration = @ + 1])
          /\ UNCHANGED outcome
    /\ UNCHANGED <<asg, config, asg_instances, cmp_idx,
                   instances_to_upgrade, victim, throttled>>
    /\ UNCHANGED <<env_vars, arg_vars, call, ssh_manager>>

\* what the boot-marker check on instance i can answer: true only while
\* the instance is up (cloud-init may have finished or not), false
\* whenever SSH fails
ProbeResults(i) ==
    {is_ready(ssh_manager, env).value :
        env \in {e \in SshOutcomes : Listed(i) \/ e.connect = "error"}}

\* lines 613-626 and 588-594: one is_ready call of are_all_instances_ready
are_all_instances_ready ==
    /\ pc = "probe"
    /\ \E r \in ProbeResults(instances[probe_idx]) :
          IF ~r
          THEN /\ pc' = "relist"
               /\ probe_idx' = 1
               /\ UNCHANGED <<hist, instances, current_attempts>>
          ELSE IF probe_idx < Len(instances)
          THEN /\ probe_idx' = probe_idx + 1
               /\ UNCHANGED <<pc, hist, instances, current_attempts>>
          ELSE /\ pc' = "get_instances_to_upgrade"
               /\ probe_idx' = 1
               /\ current_attempts' = 0
               /\ instances' = <<>>
               /\ hist' = [hist EXCEPT !.ready_since = TRUE]
    /\ UNCHANGED <<asg, config, asg_instances,
                   cmp_idx, instances_to_upgrade, victim, outcome, throttled>>
    /\ UNCHANGED <<env_vars, arg_vars, call, ssh_manager>>

\* line 601: the listing at the end of a tick
wait_relist ==
    /\ pc = "relist"
    /\ Called("list_instances")
    /\ \/ /\ \E e \in ApiErrors : Raise(e)
          /\ UNCHANGED instances
       \/ /\ instances' = get_instances_for_asg(asg)
          /\ pc' = "sleep"
          /\ UNCHANGED outcome
    /\ UNCHANGED <<asg, config, current_attempts, probe_idx, asg_instances,
                   cmp_idx, instances_to_upgrade, victim, throttled>>
    /\ UNCHANGED <<env_vars, arg_vars, call, ssh_manager>>

\* lines 602-608 and back to 583: sleep, count the attempt, exit with
\* status 1 when the attempts are used up, else the next tick
wait_sleep ==
    /\ pc = "sleep"
    /\ IF current_attempts + 1 >= max_wait_attempts
       THEN /\ pc' = "exited"
            /\ current_attempts' = current_attempts + 1
            /\ outcome' = [exit_status |-> 1, exception |-> NoError]
            /\ UNCHANGED <<probe_idx, hist, instances>>
       ELSE /\ AfterLoopHead(current_attempts + 1, instances, hist)
            /\ UNCHANGED outcome
    /\ UNCHANGED <<asg, config, asg_instances, cmp_idx,
                   instances_to_upgrade, victim, throttled>>
    /\ UNCHANGED <<env_vars, arg_vars, call, ssh_manager>>

\* lines 665-667: the listing of get_instances_to_upgrade
get_instances_to_upgrade ==
    /\ pc = "get_instances_to_upgrade"
    /\ \/ /\ \E e \in ApiErrors : Raise(e)
          /\ Called("list_instances")
          /\ UNCHANGED <<asg_instances, cmp_idx, instances_to_upgrade>>
       \/ /\ asg_instances' = get_instances_for_asg(asg)
          /\ instances_to_upgrade' = {}
          /\ cmp_idx' = 1
          /\ pc' = IF asg_instances' = <<>> THEN "decide" ELSE "compare"
          /\ hist' = [hist EXCEPT !.called = @ \cup {"list_instances"},
                                  !.cand_iteration = hist.iteration]
          /\ UNCHANGED outcome
    /\ UNCHANGED <<asg, config, current_attempts, instances, probe_idx,
                   victim, throttled>>
    /\ UNCHANGED <<env_vars, arg_vars, call, ssh_manager>>

\* lines 667-673 with compare_instance_to_config: one pass of the for loop
compare_instance ==
    /\ pc = "compare"
    /\ LET i == asg_instances[cmp_idx]
           instance == Instance(i)
       IN  \/ /\ \E e \in ApiErrors : Raise(e)
              /\ \E op \in {"user_data", "volumes"} : Called(op)
              /\ UNCHANGED <<cmp_idx, instances_to_upgrade>>
           \/ \E order \in Orders(DOMAIN instance.volumes) :
                LET diffs == compare_instance_to_config(instance, config, order)
                IN  IF diffs.raised # ""
                    THEN /\ Raise([class |-> diffs.raised,
                                   message |-> Text("missing"),
                                   code |-> ""])
                         /\ Called("user_data")
                         /\ UNCHANGED <<cmp_idx, instances_to_upgrade>>
                    ELSE /\ instances_to_upgrade' =
                               IF needs_upgrade(diffs.changes)
                               THEN instances_to_upgrade \cup {i}
                               ELSE instances_to_upgrade
                         /\ cmp_idx' = cmp_idx + 1
                         /\ pc' = IF cmp_idx = Len(asg_instances)
                                  THEN "decide" ELSE "compare"
                         /\ hist' = [hist EXCEPT
                               !.called = @ \cup {"user_data", "volumes"}]
                         /\ UNCHANGED outcome
    /\ UNCHANGED <<asg, config, current_attempts, instances, probe_idx,
                   asg_instances, victim, throttled>>
    /\ UNCHANGED <<env_vars, arg_vars, call, ssh_manager>>

\* lines 674 and 699-710: list(set) has no order the script controls;
\* break on an empty list, else the oldest instance is the next to go
choose_instance ==
    /\ pc = "decide"
    /\ hist' = [hist EXCEPT
          !.prev_candidates = <<Cardinality(instances_to_upgrade)>>]
    /\ IF instances_to_upgrade = {}
       THEN /\ pc' = "done"
            /\ outcome' = [exit_status |-> 0, exception |-> NoError]
            /\ UNCHANGED victim
       ELSE /\ \E order \in Orders(instances_to_upgrade) :
                  victim' = get_oldest_instance(
                                [k \in 1..Len(order) |-> Instance(order[k])]).id
            /\ pc' = "terminate"
            /\ UNCHANGED outcome
    /\ UNCHANGED <<asg, config, current_attempts, instances, probe_idx,
                   asg_instances, cmp_idx, instances_to_upgrade, throttled>>
    /\ UNCHANGED <<env_vars, arg_vars, call, ssh_manager>>

\* lines 712 and 122-141: the terminate call and the provider's answer to
\* it; without the DryRun flag the provider takes the instance out of
\* service, and the listing drops it later (provider_remove). The next
\* iteration reassigns asg_instances, instances_to_upgrade and instance
\* before it reads them
terminate ==
    /\ pc = "terminate"
    /\ hist.terminate_calls < MaxTerminateCalls
    /\ LET flag == terminate_dry_run_flag(dry_run)
       IN  \E answer \in TerminateAnswers(flag) :
             LET e == terminate_instance(answer)
                 real == answer = NoError /\ InService(victim)
             IN  /\ inst' = IF real
                            THEN [inst EXCEPT ![victim].state = "terminating"]
                            ELSE inst
                 /\ unreplaced' = IF real THEN unreplaced \cup {victim}
                                  ELSE unreplaced
                 /\ hist' = [hist EXCEPT
                       !.called = @ \cup {"terminate"},
                       !.terminate_calls = @ + 1,
                       !.dry_flags = @ \cup {flag},
                       !.passed = @ \cup {victim},
                       !.terminate_iteration = hist.iteration,
                       !.real_terminated =
                           IF answer = NoError THEN @ \cup {victim} ELSE @,
                       !.ready_since = FALSE,
                       !.unready_terminate = @ \/ ~hist.ready_since]
                 /\ IF e = NoError
                    THEN /\ pc' = "wait_for_instances"
                         /\ asg_instances' = <<>>
                         /\ instances_to_upgrade' = {}
                         /\ cmp_idx' = 1
                         /\ victim' = 0
                         /\ UNCHANGED outcome
                    ELSE /\ Raise(e)
                         /\ UNCHANGED <<asg_instances, instances_to_upgrade,
                                        cmp_idx, victim>>
    /\ UNCHANGED <<asg, config, current_attempts, instances, probe_idx,
                   throttled>>
    /\ UNCHANGED <<groups, launch_config, arg_vars, call, ssh_manager>>

Controller ==
    \/ get_single_asg
    \/ get_launch_config_for_asg
    \/ wait_for_instances
    \/ are_all_instances_ready
    \/ wait_relist
    \/ wait_sleep
    \/ get_instances_to_upgrade
    \/ compare_instance
    \/ choose_instance
    \/ terminate

----------------------------------------------------------------------------
(* The provider, while the script runs *)

Running == pc \notin {"done", "raised", "exited"}

\* a terminated instance leaves the listing of running instances
provider_remove ==
    /\ Running
    /\ \E i \in InstIds :
          /\ inst[i].state = "terminating"
          /\ inst' = [inst EXCEPT ![i].state = "gone"]
    /\ UNCHANGED <<groups, launch_config, unreplaced, arg_vars, ctl_vars,
                   hist, call, ssh_manager>>

\* the group is below its desired capacity: the provider launches an
\* instance from the launch configuration, which replaces the terminated
\* instance waiting longest, if there is one
provider_launch ==
    /\ Running
    /\ Cardinality({i \in InstIds : InService(i)}) < TargetDesired
    /\ \E i \in InstIds :
          /\ i > Len(Catalogue)
          /\ inst[i].state = "none"
          /\ \A j \in InstIds : (j > Len(Catalogue) /\ j < i)
                                    => inst[j].state # "none"
          /\ inst' = [inst EXCEPT ![i].state = "running"]
    /\ unreplaced' = IF unreplaced = {} THEN {}
                     ELSE unreplaced \
                            {CHOOSE j \in unreplaced :
                                \A k \in unreplaced : j <= k}
    /\ UNCHANGED <<groups, launch_config, arg_vars, ctl_vars, hist, call, ssh_manager>>

Provider == provider_remove \/ provider_launch

Next == Controller \/ Provider

Spec == Init /\ [][Next]_vars

----------------------------------------------------------------------------
(* A real run against a fair provider *)

\* the provider has nothing left to do: no terminated instance is still
\* listed and the group is at its desired capacity
Settled ==
    /\ \A i \in InstIds : inst[i].state # "terminating"
    /\ Cardinality({i \in InstIds : InService(i)}) >= TargetDesired

\* what the run meets: no call of the API fails; an instance in service
\* has finished booting and answers the boot-marker check, an instance
\* taken out of service does not; the provider removes and replaces within
\* the sleep of one tick (line 602), so the sleep ends with the group
\* settled
FairProvider ==
    /\ pc' # "raised"
    /\ (pc = "probe" /\ InService(instances[probe_idx])) => pc' # "relist"
    /\ (pc = "probe" /\ ~InService(instances[probe_idx])) => pc' = "relist"
    /\ pc = "sleep" => Settled

\* --dry-run unset, one group matching --limit, at its desired capacity
\* with booted instances, the launch configuration complete, and at least
\* one attempt to wait
InitLive ==
    /\ \E desired \in 0..MaxDesired :
          /\ groups = <<Group(db, 0), Group(web, desired)>>
          /\ \E fleet \in SUBSET (1..Len(Catalogue)) :
                /\ Cardinality(fleet) = desired
                /\ inst = [i \in InstIds |->
                             IF i \in fleet
                             THEN [state |-> "running"]
                             ELSE [state |-> "none"]]
    /\ launch_config = LcGood
    /\ unreplaced = {}
    /\ slug = <<"w">>
    /\ dry_run = FALSE
    /\ max_wait_attempts \in 1..MaxAttempts
    /\ ControllerInit
    /\ call = NoCall
    /\ ssh_manager = InstanceSshManager(FALSE)

NextLive == (Controller /\ FairProvider) \/ Provider

\* the script runs on, and the provider does what it has to do
SpecLive ==
    /\ InitLive
    /\ [][NextLive]_vars
    /\ WF_vars(Controller /\ FairProvider)
    /\ WF_vars(provider_remove)
    /\ WF_vars(provider_launch)

----------------------------------------------------------------------------
(* One wait_for_instances, with either prober *)

\* the wait was called for the group web; the provider answers every call
InitWait ==
    /\ \E desired \in 0..MaxDesired :
          /\ groups = <<Group(db, 0), Group(web, desired)>>
          /\ asg = Group(web, desired)
          /\ \E fleet \in {1..n : n \in 0..desired} :
                /\ Cardinality(fleet) <= Len(Catalogue)
                /\ \E going \in {g \in SUBSET fleet : Cardinality(g) <= 1} :
                      inst = [i \in InstIds |->
                                 IF i \in going
                                 THEN [state |-> "terminating"]
                                 ELSE IF i \in fleet
                                 THEN [state |-> "running"]
                                 ELSE [state |-> "none"]]
    /\ launch_config = LcGood
    /\ config = LcGood
    /\ unreplaced = {}
    /\ slug = <<"w">>
    /\ dry_run = FALSE
    /\ max_wait_attempts \in 0..MaxAttempts
    /\ pc = "wait_for_instances"
    /\ current_attempts = 0
    /\ instances = <<>>
    /\ probe_idx = 1
    /\ asg_instances = <<>>
    /\ cmp_idx = 1
    /\ instances_to_upgrade = {}
    /\ victim = 0
    /\ outcome = NoOutcome
    /\ throttled = 0
    /\ hist = HistInit
    /\ call = NoCall
    /\ ssh_manager \in {InstanceSshManager(FALSE), InstanceSshManager(TRUE)}

\* lines 623-626 with the tunnelled prober: the prober changes with the
\* call of is_ready, and an exception of is_ready leaves the wait; a
\* forward that reports healthy after some rounds of the loop of lines
\* 361-363 is the outcome "up"
are_all_instances_ready_tunnelled ==
    /\ pc = "probe"
    /\ ssh_manager.use_bastion_tunnel
    /\ \E env \in SshOutcomes :
          /\ env.tunnel # "poll_raises"
          /\ Listed(instances[probe_idx]) \/ env.connect = "error"
          /\ LET r == is_ready(ssh_manager, env)
             IN  /\ ssh_manager' = r.m
                 /\ IF r.raised # ""
                    THEN /\ Raise([class |-> r.raised,
                                   message |-> <<>>, code |-> ""])
                         /\ UNCHANGED <<probe_idx, hist, instances,
                                        current_attempts>>
                    ELSE IF ~r.value
                    THEN /\ pc' = "relist"
                         /\ probe_idx' = 1
                         /\ UNCHANGED <<hist, instances, current_attempts,
                                        outcome>>
                    ELSE IF probe_idx < Len(instances)
                    THEN /\ pc' = "probe"
                         /\ probe_idx' = probe_idx + 1
                         /\ UNCHANGED <<hist, instances, current_attempts,
                                        outcome>>
                    ELSE /\ pc' = "get_instances_to_upgrade"
                         /\ probe_idx' = 1
                         /\ current_attempts' = 0
                         /\ instances' = <<>>
                         /\ hist' = [hist EXCEPT !.ready_since = TRUE]
                         /\ UNCHANGED outcome
    /\ UNCHANGED <<asg, config, asg_instances,
                   cmp_idx, instances_to_upgrade, victim, throttled>>
    /\ UNCHANGED <<env_vars, arg_vars, call>>

\* lines 360-363: the forward was started and never reports healthy; the
\* loop checks it and sleeps a second, round after round, with no limit
get_ssh_tunnel_waiting ==
    /\ pc = "probe"
    /\ ssh_manager.use_bastion_tunnel
    /\ pc' = "tunnel_poll"
    /\ UNCHANGED <<asg, config, current_attempts, instances, probe_idx,
                   asg_instances, cmp_idx, instances_to_upgrade, victim,
                   outcome, throttled, hist>>
    /\ UNCHANGED <<env_vars, arg_vars, call, ssh_manager>>

\* the steps of the wait that end by themselves
WaitSteps ==
    \/ wait_for_instances /\ pc' # "raised"
    \/ are_all_instances_ready /\ ~ssh_manager.use_bastion_tunnel
    \/ are_all_instances_ready_tunnelled
    \/ wait_relist /\ pc' # "raised"
    \/ wait_sleep

NextWait ==
    \/ WaitSteps
    \/ get_ssh_tunnel_waiting
    \/ Provider

SpecWait == InitWait /\ [][NextWait]_vars /\ WF_vars(WaitSteps)

----------------------------------------------------------------------------
(* The pure functions, called on their own *)

\* the lists of instances get_oldest_instance is given: launch times in
\* 1..MaxLaunchTime, the id is the position in the list
InstanceLists ==
    UNION {[1..n -> 1..MaxLaunchTime] : n \in 1..MaxLen}

call_get_oldest_instance ==
    /\ \E lts \in InstanceLists :
          LET list == [k \in 1..Len(lts) |-> [id |-> k, launch_time |-> lts[k]]]
          IN  call' = [op |-> "get_oldest_instance", arg |-> list,
                       ret |-> get_oldest_instance(list)]
    /\ UNCHANGED <<env_vars, arg_vars, ctl_vars, hist, ssh_manager>>

InitPure ==
    /\ groups = <<>>
    /\ launch_config = LcGood
    /\ inst = [i \in InstIds |-> [state |-> "none"]]
    /\ unreplaced = {}
    /\ slug = <<"w">>
    /\ dry_run = FALSE
    /\ max_wait_attempts = 0
    /\ ControllerInit
    /\ call = NoCall
    /\ ssh_manager = InstanceSshManager(FALSE)

NextPure == call_get_oldest_instance

SpecPure == InitPure /\ [][NextPure]_vars

----------------------------------------------------------------------------
(* The prober, called on its own: connect, is_ready and close_connections *)
(* in any order, on a direct and on a tunnelled prober                     *)

\* the record of the last call: the prober before it, what the network
\* did, the call made before it, and how it ended
ProberCall(op, env, r) ==
    [op |-> op,
     arg |-> [before |-> ssh_manager, env |-> env, prev |-> call.op],
     ret |-> r]

\* a call that reaches line 360 starts one more forward
MayStart(env) ==
    (ssh_manager.use_bastion_tunnel /\ env.tunnel # "start_raises")
        => ssh_manager.started < MaxForwards

call_connect ==
    /\ \E env \in SshOutcomes :
          /\ MayStart(env)
          /\ LET r == connect(ssh_manager, env)
             IN  /\ ssh_manager' = r.m
                 /\ call' = ProberCall("connect", env,
                                [raised |-> r.raised, value |-> FALSE])
    /\ UNCHANGED <<env_vars, arg_vars, ctl_vars, hist>>

call_is_ready ==
    /\ \E env \in SshOutcomes :
          /\ MayStart(env)
          /\ LET r == is_ready(ssh_manager, env)
             IN  /\ ssh_manager' = r.m
                 /\ call' = ProberCall("is_ready", env,
                                [raised |-> r.raised, value |-> r.value])
    /\ UNCHANGED <<env_vars, arg_vars, ctl_vars, hist>>

call_close_connections ==
    /\ LET r == close_connections(ssh_manager)
       IN  /\ ssh_manager' = r.m
           /\ call' = ProberCall("close_connections",
                          CHOOSE env \in SshOutcomes : TRUE,
                          [raised |-> r.raised, value |-> FALSE])
    /\ UNCHANGED <<env_vars, arg_vars, ctl_vars, hist>>

InitProber ==
    /\ groups = <<>>
    /\ launch_config = LcGood
    /\ inst = [i \in InstIds |-> [state |-> "none"]]
    /\ unreplaced = {}
    /\ slug = <<"w">>
    /\ dry_run = FALSE
    /\ max_wait_attempts = 0
    /\ ControllerInit
    /\ call = NoCall
    /\ ssh_manager \in {InstanceSshManager(b) : b \in BOOLEAN}

NextProber == call_connect \/ call_is_ready \/ call_close_connections

SpecProber == InitProber /\ [][NextProber]_vars

----------------------------------------------------------------------------
(* Single calls of the script's functions on given inputs                  *)

\* the answers TerminateInstances may give to any call
AllTerminateAnswers == {NoError, DryRunOperation} \cup ApiErrors

TerminateInputs ==
    {[op |-> "terminate_instance", arg |-> [answer |-> a], ret |-> <<>>] :
        a \in AllTerminateAnswers}

\* the list of instances 1..n
Fleet(n) == [i \in 1..n |-> i]

ReadyInputs ==
    {[op |-> "are_all_instances_ready",
      arg |-> [list |-> l, answers |-> a], ret |-> <<>>] :
        <<l, a>> \in UNION {[1..n -> 1..MaxFleet] \X [1..n -> BOOLEAN] :
                                n \in 0..MaxFleet}}

WaitInputs ==
    {[op |-> "wait_for_instances",
      arg |-> [lens |-> l, expected_num_instances |-> d, not_ready |-> n],
      ret |-> <<>>] :
        <<l, d, n>> \in [1..MaxListings -> 0..MaxFleet] \X (0..MaxFleet)
                            \X (0..MaxNotReady)}

RequiredInstanceAttrs == {RequiredAttrs[k][1] : k \in 1..Len(RequiredAttrs)}
RequiredConfigKeys == {RequiredAttrs[k][2] : k \in 1..Len(RequiredAttrs)}

\* what a required field can hold on either side; absent: no such
\* attribute, no such key
InstanceValues == {"absent", None, "", "a"}
ConfigValues == {"absent", None, "", "a", "b"}

\* tests, lines 240-246 and 327-329: an instance with the given required
\* attributes and no security groups
InstanceWith(iv) ==
    [a \in {x \in RequiredInstanceAttrs : iv[x] # "absent"}
           \cup {"security_groups"} |->
        IF a = "security_groups" THEN <<>> ELSE iv[a]]

\* tests, lines 248-257 and 309: default_asg_config with the given values
ConfigWith(cv) ==
    [k \in {x \in RequiredConfigKeys : cv[x] # "absent"}
           \cup {"UserData", "SecurityGroups"} |->
        IF k = "UserData" THEN "userdata"
        ELSE IF k = "SecurityGroups" THEN <<>>
        ELSE cv[k]]

\* the required fields that are not set to the same plain value on both
\* sides
Deviations(iv, cv) ==
    {k \in 1..Len(RequiredAttrs) :
        <<iv[RequiredAttrs[k][1]], cv[RequiredAttrs[k][2]]>> # <<"a", "a">>}

CompareInputs ==
    {[op |-> "compare_to_config", arg |-> [iv |-> iv, cv |-> cv],
      ret |-> <<>>] :
        <<iv, cv>> \in
            {x \in [RequiredInstanceAttrs -> InstanceValues]
                       \X [RequiredConfigKeys -> ConfigValues] :
                Cardinality(Deviations(x[1], x[2])) <= MaxDeviations}}

\* lists of security-group ids
SgLists ==
    UNION {[1..n -> 1..MaxSecurityGroups] : n \in 0..MaxSecurityGroups}

\* a volume as describe_volumes answers it (tests, lines 406-415)
VolumeWith(type, size, device, flag) ==
    [VolumeType |-> type, Size |-> size,
     Attachments |-> << [Device |-> device, DeleteOnTermination |-> flag] >>]

\* a block device mapping of a launch configuration (tests, lines 417-425)
Mapping(device, type, size, flag) ==
    [DeviceName |-> device,
     Ebs |-> [VolumeType |-> type, VolumeSize |-> size,
              DeleteOnTermination |-> flag]]

VolumeTypes == {"gp2", "standard"}
VolumeSizes == {8, 16}

\* the dicts get_volumes_dict_for_instance returns, lines 184-202: each
\* volume under the device of its first attachment
InstanceVolumeDicts(types, sizes, flags) ==
    UNION {{[d \in S |-> VolumeWith(k[d][1], k[d][2], d, k[d][3])] :
                k \in [S -> types \X sizes \X flags]} :
           S \in SUBSET (1..MaxDevices)}

\* the dicts config_volumes_to_dict returns, lines 204-219
ConfigVolumeDicts(types, sizes, flags) ==
    UNION {{[d \in S |-> Mapping(d, k[d][1], k[d][2], k[d][3])] :
                k \in [S -> types \X sizes \X flags]} :
           S \in SUBSET (1..MaxDevices)}

\* every pair of dicts with an order of iteration of the first
WithOrders(pairs) ==
    UNION {{<<p[1], p[2], o>> : o \in Orders(DOMAIN p[1])} : p \in pairs}

\* tests, lines 428-549: any volumes against a configuration without
\* mappings, and plain volumes against any mappings
VolumeInputs ==
    {[op |-> "compare_volumes_config",
      arg |-> [instance_volumes_dict |-> x[1], config_volumes_dict |-> x[2],
               order |-> x[3]],
      ret |-> <<>>] :
        x \in WithOrders(
                 (InstanceVolumeDicts(VolumeTypes, VolumeSizes, BOOLEAN)
                      \X ConfigVolumeDicts({}, {}, {}))
                 \cup (InstanceVolumeDicts({"gp2"}, {8}, {TRUE})
                           \X ConfigVolumeDicts(VolumeTypes, VolumeSizes,
                                                BOOLEAN)))}

\* tests, lines 240-246: an instance with the given required attributes,
\* profile (absent: no such attribute), security groups, user data and
\* volumes
InstanceOf(iv, iam, sgs, ud, vols) ==
    [a \in RequiredInstanceAttrs
            \cup {"security_groups", "user_data", "volumes"}
            \cup (IF iam = "absent" THEN {} ELSE {"iam_instance_profile"}) |->
        CASE a = "security_groups" ->
                [i \in 1..Len(sgs) |-> [GroupId |-> sgs[i]]]
          [] a = "user_data" -> ud
          [] a = "volumes" -> vols
          [] a = "iam_instance_profile" -> iam
          [] OTHER -> iv[a]]

\* tests, lines 248-257: a launch configuration with the given required
\* values, profile (absent: no such key), security groups, user data and
\* block device mappings
ConfigOf(cv, iam, sgs, ud, bdm) ==
    [k \in RequiredConfigKeys
            \cup {"SecurityGroups", "UserData", "BlockDeviceMappings"}
            \cup (IF iam = "absent" THEN {} ELSE {"IamInstanceProfile"}) |->
        CASE k = "SecurityGroups" -> sgs
          [] k = "UserData" -> ud
          [] k = "BlockDeviceMappings" -> bdm
          [] k = "IamInstanceProfile" -> iam
          [] OTHER -> cv[k]]

\* the launch configuration that holds what the instance holds: its
\* required fields, profile and user data, its security groups listed in
\* the order p, its volumes mapped in the order devices (tests, lines
\* 337-357)
config_from(x, p, devices) ==
    ConfigOf([k \in RequiredConfigKeys |->
                 x[RequiredAttrs[CHOOSE i \in 1..Len(RequiredAttrs) :
                                     RequiredAttrs[i][2] = k][1]]],
             IF "iam_instance_profile" \in DOMAIN x
             THEN x["iam_instance_profile"] ELSE "absent",
             [i \in 1..Len(p) |-> x["security_groups"][p[i]].GroupId],
             x["user_data"],
             [i \in 1..Len(devices) |->
                 Mapping(devices[i], x["volumes"][devices[i]].VolumeType,
                         x["volumes"][devices[i]].Size,
                         x["volumes"][devices[i]].Attachments[1].DeleteOnTermination)])

ConfigsFrom(x) ==
    {config_from(x, p, d) :
        p \in Orders(1..Len(x["security_groups"])),
        d \in Orders(DOMAIN x["volumes"])}

AllSet == [a \in RequiredInstanceAttrs |-> "a"]
OneVolume == [d \in {1} |-> VolumeWith("gp2", 8, 1, TRUE)]
OneMapping == <<Mapping(1, "gp2", 8, TRUE)>>

\* tests, lines 260-292: every profile of the instance against every
\* profile of the configuration
IamCases ==
    {<<InstanceOf(AllSet, i, <<>>, "userdata", OneVolume),
       ConfigOf([k \in RequiredConfigKeys |-> "a"], c, <<>>, "userdata",
                OneMapping)>> :
        i \in InstanceValues, c \in ConfigValues}

\* tests, lines 360-398: every list of security groups on either side
SgCases ==
    {<<InstanceOf(AllSet, "a", i, "userdata", OneVolume),
       ConfigOf([k \in RequiredConfigKeys |-> "a"], "a", c, "userdata",
                OneMapping)>> :
        i \in SgLists, c \in SgLists}

\* the block device mappings held against OneVolume: the same, none, other
\* attributes, another device
MappingCases ==
    {OneMapping, <<>>, <<Mapping(1, "standard", 16, FALSE)>>,
     <<Mapping(2, "gp2", 8, TRUE)>>}

\* every combination of fields that differ
FieldCases ==
    {<<InstanceOf(AllSet, "a", <<>>, "userdata", OneVolume),
       ConfigOf([k \in RequiredConfigKeys |-> IF k \in D THEN "b" ELSE "a"],
                iam, sgs, ud, bdm)>> :
        D \in SUBSET RequiredConfigKeys, iam \in {"a", "b"},
        sgs \in {<<>>, <<1>>}, ud \in {"userdata", "other"},
        bdm \in MappingCases}

\* tests, lines 337-357: instances against the configurations that hold
\* what they hold
RoundTripCases ==
    UNION {{<<x, c>> : c \in ConfigsFrom(x)} :
        x \in {InstanceOf([a \in RequiredInstanceAttrs |-> v], iam, sgs,
                          "userdata", OneVolume) :
                  v \in {None, "", "a"}, iam \in InstanceValues,
                  sgs \in SgLists}
              \cup {InstanceOf(AllSet, "a", <<>>, "userdata", vols) :
                        vols \in InstanceVolumeDicts(VolumeTypes, {8},
                                                     BOOLEAN)}}

\* two volumes that both differ from their mappings
TwoVolumeCases ==
    {<<InstanceOf(AllSet, "a", <<>>, "userdata",
                  [d \in {1, 2} |-> VolumeWith("gp2", 8, d, TRUE)]),
       ConfigOf([k \in RequiredConfigKeys |-> "a"], "a", <<>>, "userdata",
                <<Mapping(2, t, 8, f), Mapping(1, "standard", 16, TRUE)>>)>> :
        t \in VolumeTypes, f \in BOOLEAN}

DiffInputs ==
    {[op |-> "compare_instance_to_config",
      arg |-> [instance |-> x[1], config |-> x[2], order |-> o],
      ret |-> <<>>] :
        <<x, o>> \in UNION {{<<p, q>> : q \in Orders(DOMAIN p[1].volumes)} :
                               p \in IamCases \cup SgCases \cup FieldCases
                                        \cup RoundTripCases
                                        \cup TwoVolumeCases}}

\* the names the provider's groups carry, and the patterns looked for
GroupNames == {web, worker, db}
Patterns ==
    {<<"^", "w">>, <<"^", "w", "e", "b">>, <<"^", "d", "b">>,
     <<"^", "n", "o">>, <<"^">>, <<"e", "b">>, <<"w", "o">>}

\* tests, lines 65-114: the pages of describe_auto_scaling_groups and a
\* pattern
FindInputs ==
    {[op |-> "find_asg_group",
      arg |-> [response |-> IF x[2] = 0
                            THEN << [AutoScalingGroups |-> x[1]] >>
                            ELSE << [AutoScalingGroups |-> SubSeq(x[1], 1, x[2])],
                                    [AutoScalingGroups |->
                                        SubSeq(x[1], x[2] + 1, Len(x[1]))] >>,
               asg_regex_pat |-> pat],
      ret |-> <<>>] :
        x \in UNION {{<<[i \in 1..n |-> Group(names[i], i)], c>> :
                          names \in [1..n -> GroupNames], c \in 0..n} :
                       n \in 0..MaxGroups},
        pat \in Patterns}

\* the exceptions a call of the facade may meet: client errors (tests,
\* lines 55-62; the provider's own throttling error carries the code
\* Throttling), and errors of other classes
Exceptions ==
    ApiErrors
    \cup {ClientError(Text("occurred: ") \o Text("throttling"), "Unknown"),
          ClientError(Text("occurred: ") \o Text("Throttling"), "Throttling"),
          ClientError(<<>>, "Unknown"),
          [class |-> "EndpointConnectionError", message |-> Text("throttling"),
           code |-> ""],
          [class |-> "Exception", message |-> Text("different error"),
           code |-> ""]}

RetryInputs ==
    {[op |-> "retry_if_throttled", arg |-> [exception |-> e], ret |-> <<>>] :
        e \in Exceptions}
    \cup {[op |-> "get_launch_config_for_asg", arg |-> [answers |-> a],
           ret |-> <<>>] :
            a \in UNION {[1..n -> Exceptions \cup {NoError}] :
                            n \in 1..MaxAnswers}}

InitCalls ==
    /\ groups = <<>>
    /\ launch_config = LcGood
    /\ inst = [i \in InstIds |-> [state |-> "none"]]
    /\ unreplaced = {}
    /\ slug = <<"w">>
    /\ \/ call \in TerminateInputs
       \/ call \in ReadyInputs
       \/ call \in WaitInputs
       \/ call \in CompareInputs
       \/ call \in VolumeInputs
       \/ call \in DiffInputs
       \/ call \in FindInputs
       \/ call \in RetryInputs
    /\ dry_run \in IF call.op = "terminate_instance" THEN BOOLEAN ELSE {FALSE}
    /\ max_wait_attempts \in IF call.op = "wait_for_instances"
                             THEN 0..MaxListings ELSE {0}
    /\ pc = "call"
    /\ asg = NoGroup
    /\ config = <<>>
    /\ current_attempts = 0
    /\ instances = <<>>
    /\ probe_idx = 1
    /\ asg_instances = <<>>
    /\ cmp_idx = 1
    /\ instances_to_upgrade = {}
    /\ victim = 0
    /\ outcome = NoOutcome
    /\ throttled = 0
    /\ hist = HistInit
    /\ ssh_manager = InstanceSshManager(FALSE)

Return(r) ==
    /\ pc = "call"
    /\ pc' = "returned"
    /\ call' = [call EXCEPT !.ret = r]
    /\ UNCHANGED <<env_vars, arg_vars, asg, config, current_attempts,
                   instances, probe_idx, asg_instances, cmp_idx,
                   instances_to_upgrade, victim, outcome, throttled, hist,
                   ssh_manager>>

call_terminate_instance ==
    /\ call.op = "terminate_instance"
    /\ Return([flag |-> terminate_dry_run_flag(dry_run),
               raised |-> terminate_instance(call.arg.answer)])

call_are_all_instances_ready ==
    /\ call.op = "are_all_instances_ready"
    /\ Return(are_all_instances_ready_on(call.arg.list, call.arg.answers))

call_wait_for_instances ==
    /\ call.op = "wait_for_instances"
    /\ Return(wait_for_instances_on(
                  [k \in 1..Len(call.arg.lens) |-> Fleet(call.arg.lens[k])],
                  max_wait_attempts, call.arg.expected_num_instances,
                  call.arg.not_ready))

call_compare_to_config ==
    /\ call.op = "compare_to_config"
    /\ Return(compare_to_config(InstanceWith(call.arg.iv),
                                ConfigWith(call.arg.cv), "userdata"))

call_compare_volumes_config ==
    /\ call.op = "compare_volumes_config"
    /\ Return(compare_volumes_config(call.arg.instance_volumes_dict,
                                     call.arg.config_volumes_dict,
                                     call.arg.order))

call_compare_instance_to_config ==
    /\ call.op = "compare_instance_to_config"
    /\ Return(compare_instance_to_config(call.arg.instance, call.arg.config,
                                         call.arg.order))

call_find_asg_group ==
    /\ call.op = "find_asg_group"
    /\ Return(find_asg_group(get_all_as_groups(call.arg.response),
                             call.arg.asg_regex_pat))

call_retry_if_throttled ==
    /\ call.op = "retry_if_throttled"
    /\ Return(retry_if_throttled(call.arg.exception))

call_get_launch_config_for_asg ==
    /\ call.op = "get_launch_config_for_asg"
    /\ Return(retry(call.arg.answers, 1))

NextCalls ==
    \/ call_terminate_instance
    \/ call_are_all_instances_ready
    \/ call_wait_for_instances
    \/ call_compare_to_config
    \/ call_compare_volumes_config
    \/ call_compare_instance_to_config
    \/ call_find_asg_group
    \/ call_retry_if_throttled
    \/ call_get_launch_config_for_asg

SpecCalls == InitCalls /\ [][NextCalls]_vars

----------------------------------------------------------------------------
(* Properties *)

Terminal == pc \in {"done", "raised", "exited"}

\* the groups whose name the anchored pattern ^slug matches
Matching ==
    {k \in 1..Len(groups) :
        /\ Len(slug) <= Len(groups[k].AutoScalingGroupName)
        /\ \A j \in 1..Len(slug) : groups[k].AutoScalingGroupName[j] = slug[j]}

HasDiff(i) ==
    /\ Diff(i, config).raised = ""
    /\ Diff(i, config).changes # <<>>

\* C1: every terminate call is preceded, since the previous terminate call
\* or the start, by a wait_for_instances that ended in Ready (a listing of
\* at least the desired number of instances, all of them answering true to
\* is_ready), whatever max_wait_attempts >= 0 is.
C1_ReadyBeforeTerminate == ~hist.unready_terminate

\* C2: one at a time: no two instances terminated by the script are
\* missing from the group, unreplaced, at the same moment.
C2_OneAtATime == Cardinality(unreplaced) <= 1

\* the same, for runs that are given at least one attempt to wait
C2_OneAtATimeWhenWaiting ==
    max_wait_attempts >= 1 => Cardinality(unreplaced) <= 1

\* C3: every instance passed to terminate has a non-empty diff against the
\* launch configuration fetched at the start; when terminate is about to be
\* called the victim is one of the candidates computed in this iteration
\* of the loop from this iteration's listing.
C3_OnlyDriftedTerminated ==
    /\ \A i \in hist.passed : HasDiff(i)
    /\ pc = "terminate" =>
          /\ victim \in instances_to_upgrade
          /\ victim \in Range(asg_instances)
          /\ instances_to_upgrade = {i \in Range(asg_instances) : HasDiff(i)}
          /\ hist.cand_iteration = hist.iteration

C3_Witness ==
    /\ hist.passed # {}
    /\ \E i \in InstIds : Listed(i) /\ i \notin hist.passed
                            /\ Diff(i, launch_config).changes = <<>>
                            /\ \A j \in hist.passed :
                                  Instance(i).launch_time < Instance(j).launch_time

\* C4: get_oldest_instance(S) on a non-empty S returns an element of S,
\* and no element of S has a smaller launch_time than it.
C4_OldestIsMinimal ==
    call.op = "get_oldest_instance" =>
        /\ call.ret \in Range(call.arg)
        /\ \A x \in Range(call.arg) : call.ret.launch_time <= x.launch_time

C4_Witness ==
    /\ call.op = "get_oldest_instance"
    /\ Len(call.arg) = MaxLen
    /\ call.ret # call.arg[1]
    /\ \E x \in Range(call.arg) : x.launch_time > call.ret.launch_time
    /\ \E x \in Range(call.arg) : x # call.ret
                                    /\ x.launch_time = call.ret.launch_time

\* C5: the script reports success only in an iteration whose candidate set
\* is empty: every instance of that iteration's listing has an empty diff
\* against the launch configuration, and that iteration made no terminate
\* call.
C5_SuccessOnlyWithoutDrift ==
    pc = "done" =>
        /\ outcome.exit_status = 0
        /\ instances_to_upgrade = {}
        /\ hist.cand_iteration = hist.iteration
        /\ \A k \in 1..Len(asg_instances) :
              /\ Diff(asg_instances[k], config).raised = ""
              /\ Diff(asg_instances[k], config).changes = <<>>
        /\ hist.terminate_iteration < hist.iteration

C5_Witness ==
    /\ pc = "done"
    /\ asg_instances # <<>>
    /\ hist.terminate_calls > 0

\* C6: after each iteration of the loop the candidate set is smaller by at
\* least one than in the previous iteration, or the script has exited; for
\* both values of dry_run.
C6_CandidatesShrink ==
    (pc = "decide" /\ hist.prev_candidates # <<>>) =>
        Cardinality(instances_to_upgrade) < hist.prev_candidates[1]

\* the same for dry runs that are given at least one attempt to wait
C6_CandidatesShrinkInDryRun ==
    (dry_run /\ max_wait_attempts >= 1) => C6_CandidatesShrink

\* C7: once current_attempts >= max_wait_attempts, wait_for_instances
\* never returns normally: the wait fails and the process exits with
\* status 1, for every max_wait_attempts >= 0.
C7_NoReturnWhenAttemptsUsedUp == ~hist.late_return

\* C8: with dry_run set every terminate call carries the DryRun flag, and
\* no instance of the group is taken out of the running set.
C8_DryRunTerminatesNothing ==
    dry_run =>
        /\ hist.dry_flags \subseteq {TRUE}
        /\ hist.real_terminated = {}
        /\ unreplaced = {}
        /\ \A i \in InstIds : inst[i].state \notin {"terminating", "gone"}

C8_Witness ==
    /\ dry_run
    /\ hist.terminate_calls = MaxTerminateCalls
    /\ hist.passed # {}

\* C9: when the pattern ^slug matches no group or several, the script
\* fails with an exception, exit status 1, having called nothing but the
\* listing of groups; it goes on to the launch configuration, the
\* instances or a terminate call only with exactly one match, the group
\* it then works on.
C9_SingleGroupOrFail ==
    /\ (pc # "start" /\ Cardinality(Matching) # 1
           /\ outcome.exception \notin ApiErrors) =>
          /\ pc = "raised"
          /\ outcome.exit_status = 1
          /\ outcome.exception.class = "Exception"
          /\ hist.called = {"list_groups"}
          /\ hist.terminate_calls = 0
    /\ (hist.called \ {"list_groups"} # {}) =>
          /\ Cardinality(Matching) = 1
          /\ \A k \in Matching : asg = groups[k]

C9_Witness ==
    /\ pc = "raised"
    /\ outcome.exception.class = "Exception"
    /\ Cardinality(Matching) >= 2

\* C10: a throttling error of a facade call never surfaces: the call is
\* retried until it succeeds and the upgrade is not aborted by it.
C10_ThrottlingNeverSurfaces ==
    ~(pc = "raised" /\ outcome.exception = Throttling)

\* the last call was made on a prober with nothing open
FreshProber ==
    /\ ~call.arg.before.connected
    /\ call.arg.before.session = "closed"
    /\ call.arg.before.forwards = {}

\* the connection of the last call was opened: the tunnel, if there is
\* one, came up and the client connected
Opened ==
    /\ ~call.arg.before.connected
    /\ call.arg.env.connect = "ok"
    /\ call.arg.before.use_bastion_tunnel => call.arg.env.tunnel = "up"

\* C13: is_ready never raises, on the direct and on the tunnelled prober:
\* it returns true when the connection was opened and the boot-marker
\* check ended with exit status 0, and false on a connect error, a tunnel
\* set-up error, an exec error or another exit status.
C13_IsReadyNeverRaises ==
    call.op = "is_ready" =>
        /\ call.ret.raised = ""
        /\ call.ret.value <=> (/\ Opened
                               /\ call.arg.env.exec = "ok"
                               /\ call.arg.env.exit_status = 0)

\* the same for the direct prober alone
C13_DirectIsReadyNeverRaises ==
    ~ssh_manager.use_bastion_tunnel => C13_IsReadyNeverRaises

\* C14: when is_ready is over, however it ended, the SSH session is closed
\* and so is every forward started during the call.
C14_NothingLeftOpen ==
    call.op = "is_ready" =>
        /\ ssh_manager.session = "closed"
        /\ ~ssh_manager.connected
        /\ ssh_manager.forwards \subseteq call.arg.before.forwards

\* the same for the calls in which no line after the start of the forward
\* raised before the forwarder was assigned
C14_NothingLeftOpenOnceUp ==
    (call.op = "is_ready" /\ call.arg.env.tunnel # "poll_raises")
        => C14_NothingLeftOpen

\* C15: connect on a connected prober raises IOError and leaves the prober
\* as it was, connected, with its session; connect on a prober that
\* close_connections has just closed succeeds when the network lets it.
C15_SingleUseAtATime ==
    call.op = "connect" =>
        /\ call.arg.before.connected =>
              /\ call.ret.raised = "IOError"
              /\ ssh_manager = call.arg.before
              /\ ssh_manager.connected
        /\ (call.arg.prev = "close_connections" /\ Opened) =>
              /\ call.ret.raised = ""
              /\ ssh_manager.connected
              /\ ssh_manager.session = "open"

C15_Witness ==
    /\ call.op = "connect"
    /\ call.arg.before.connected
    /\ call.arg.before.session = "open"
    /\ call.arg.env.connect = "ok"
    /\ call.ret.raised = "IOError"

\* the last single call has returned
Returned_(op) == pc = "returned" /\ call.op = op

\* C11: with dry_run unset, a DryRunOperation error of the provider is not
\* swallowed: it propagates out of terminate_instance.
C11_DryRunErrorPropagatesWhenNotDryRun ==
    (Returned_("terminate_instance") /\ ~dry_run
        /\ call.arg.answer = DryRunOperation)
    => call.ret.raised = DryRunOperation

\* C12: with dry_run set, terminate_instance sends the DryRun flag and
\* completes without raising when the provider answers DryRunOperation; a
\* client error with any other code is re-raised as it is.
C12_DryRunMarkerSwallowed ==
    (Returned_("terminate_instance") /\ dry_run) =>
        /\ call.ret.flag
        /\ call.arg.answer = DryRunOperation => call.ret.raised = NoError
        /\ call.arg.answer \in ApiErrors => call.ret.raised = call.arg.answer

C12_Witness ==
    /\ Returned_("terminate_instance")
    /\ dry_run
    /\ call.arg.answer = DryRunOperation
    /\ call.ret.raised = NoError

\* the ticks of the last wait whose listing is long enough
FullTicks ==
    {k \in 1..Len(call.arg.lens) :
        call.arg.lens[k] >= call.arg.expected_num_instances}

FirstFullTick == CHOOSE k \in FullTicks : \A j \in FullTicks : k <= j

\* tests, lines 599-606: listings of 1, 1, 2 and 3 instances, 3 expected,
\* every instance ready
ExampleLens == <<1, 1, 2, 3>>

IsExample ==
    /\ \A k \in 1..Len(ExampleLens) : call.arg.lens[k] = ExampleLens[k]
    /\ call.arg.expected_num_instances = ExampleLens[Len(ExampleLens)]
    /\ call.arg.not_ready = 0

\* no readiness check in a tick whose listing is short, and one more
\* listing with every attempt counted
ShortTicksOnlyRelist ==
    /\ \A i \in 1..Len(call.ret.probes) :
          call.ret.probes[i][1] \in FullTicks
    /\ call.ret.listings = call.ret.attempts + 1

\* the readiness check starts on the first listing that is long enough,
\* and the example makes four listings and returns
ProbingStartsAtFirstFull ==
    /\ FullTicks # {} =>
          /\ call.ret.probes # <<>>
          /\ call.ret.probes[1][1] = FirstFullTick
    /\ IsExample =>
          /\ call.ret.listings = Len(ExampleLens)
          /\ call.ret.outcome = "return"
          /\ call.ret.ready

\* C16, as stated, for every max_wait_attempts: while the listing is short
\* the wait makes no is_ready call, counts an attempt and lists again; it
\* starts probing on the first listing of at least the expected length;
\* for listings of 1, 1, 2, 3 instances, 3 expected and all probes true,
\* it makes exactly four listings and returns normally.
C16_ProbingOnFirstFullListing ==
    Returned_("wait_for_instances") =>
        /\ ShortTicksOnlyRelist
        /\ ProbingStartsAtFirstFull

\* the same for runs that are given at least one attempt to wait
C16_ProbingOnFirstFullListingWhenWaiting ==
    max_wait_attempts >= 1 => C16_ProbingOnFirstFullListing

\* C16, amended: the same, where max_wait_attempts is greater than the
\* number of short listings that come before the first long enough one
\* (at least 4 in the example); with fewer attempts the script exits with
\* status 1 on the way, or, with none, returns at once.
C16_ProbingOnFirstFullListingWithinAttempts ==
    Returned_("wait_for_instances") =>
        /\ ShortTicksOnlyRelist
        /\ (FullTicks # {} /\ max_wait_attempts >= FirstFullTick)
              => ProbingStartsAtFirstFull
        /\ (FullTicks = {} /\ max_wait_attempts >= 1)
              => /\ call.ret.outcome = "exit"
                 /\ call.ret.probes = <<>>

C16_Witness ==
    /\ Returned_("wait_for_instances")
    /\ IsExample
    /\ max_wait_attempts = Len(ExampleLens)
    /\ call.ret.listings = Len(ExampleLens)
    /\ call.ret.probes = << <<Len(ExampleLens), Len(ExampleLens) - 1>> >>
    /\ call.ret.ready

\* C17: are_all_instances_ready returns true exactly when every is_ready
\* call returned true (true for the empty list); it probes the instances
\* in list order and stops after the first false.
C17_AllReadyStopsAtFirstFalse ==
    Returned_("are_all_instances_ready") =>
        LET list == call.arg.list
            not_ready == {k \in 1..Len(list) : ~call.arg.answers[k]}
            last == IF not_ready = {} THEN Len(list)
                    ELSE CHOOSE k \in not_ready : \A j \in not_ready : k <= j
        IN  /\ call.ret.value <=> not_ready = {}
            /\ call.ret.probed = SubSeq(list, 1, last)
            /\ call.ret.value <=>
                  \A k \in 1..Len(call.ret.probed) : call.arg.answers[k]

C17_Witness ==
    /\ Returned_("are_all_instances_ready")
    /\ Len(call.arg.list) = MaxFleet
    /\ call.arg.answers[1]
    /\ ~call.arg.answers[2]
    /\ call.arg.answers[MaxFleet]
    /\ Len(call.ret.probed) = 2
    /\ ~call.ret.value

\* C18: get_instances_to_upgrade takes one listing of the group and
\* returns exactly the instances of that listing whose diff against the
\* configuration is non-empty, each once; nothing when every diff is empty.
C18_CandidatesOfOneListing ==
    /\ [](pc = "decide" =>
            /\ instances_to_upgrade =
                   {i \in Range(asg_instances) : HasDiff(i)}
            /\ \A order \in Orders(instances_to_upgrade) :
                  \A a, b \in 1..Len(order) : order[a] = order[b] => a = b
            /\ (\A i \in Range(asg_instances) : ~HasDiff(i))
                  => instances_to_upgrade = {})
    /\ [][(pc \in {"compare", "decide"}) => (asg_instances' = asg_instances)]_vars

C18_Witness ==
    /\ pc = "decide"
    /\ Cardinality(instances_to_upgrade) = MaxDesired
    /\ hist.terminate_calls > 0

\* the required fields of which the instance has no attribute, and those
\* of which the configuration has no key
AbsentInInstance ==
    {k \in 1..Len(RequiredAttrs) : call.arg.iv[RequiredAttrs[k][1]] = "absent"}

AbsentInConfig ==
    {k \in 1..Len(RequiredAttrs) : call.arg.cv[RequiredAttrs[k][2]] = "absent"}

\* C19: compare_to_config raises AttributeError and returns no list when
\* one of ImageId, InstanceType, KernelId, KeyName is missing from the
\* launch configuration, or its attribute from the instance; it returns a
\* list only when none is missing.
C19_MissingRequiredRaises ==
    Returned_("compare_to_config") =>
        IF AbsentInInstance \cup AbsentInConfig # {}
        THEN /\ call.ret.raised = "AttributeError"
             /\ call.ret.changes = <<>>
        ELSE call.ret.raised = ""

C19_Witness ==
    /\ Returned_("compare_to_config")
    /\ AbsentInInstance = {}
    /\ AbsentInConfig = {3}
    /\ call.arg.iv["image_id"] # call.arg.cv["ImageId"]
    /\ call.ret.raised = "AttributeError"

\* a value read as the empty string when it is absent, None or empty
AsEmpty(x) == IF x \in {"absent", None, ""} THEN "" ELSE x

\* the tags of the required fields whose configured value is not empty
\* and differs from the instance's, in the order of lines 427-430
ExpectedTags ==
    LET differs(p) ==
            /\ AsEmpty(call.arg.cv[p[2]]) # ""
            /\ AsEmpty(call.arg.iv[p[1]]) # AsEmpty(call.arg.cv[p[2]])
        pairs == SelectSeq(RequiredAttrs, differs)
    IN  [i \in 1..Len(pairs) |-> pairs[i][2]]

\* C20, as stated: an instance attribute that is absent or empty is read
\* as the empty string and compared as such, without an error.
C20_AbsentOrEmptyInstanceAttrIsEmpty ==
    (Returned_("compare_to_config") /\ AbsentInConfig = {}) =>
        /\ call.ret.raised = ""
        /\ call.ret.changes = ExpectedTags

\* C20, amended: an instance attribute that is there and empty or None is
\* read as the empty string and compared as such, without an error; an
\* attribute that is not there raises AttributeError.
C20_EmptyInstanceAttrIsEmpty ==
    (Returned_("compare_to_config") /\ AbsentInConfig = {}) =>
        IF AbsentInInstance = {}
        THEN /\ call.ret.raised = ""
             /\ call.ret.changes = ExpectedTags
        ELSE call.ret.raised = "AttributeError"

C20_Witness ==
    /\ Returned_("compare_to_config")
    /\ call.arg.iv["image_id"] = None
    /\ call.arg.cv["ImageId"] = "a"
    /\ call.arg.iv["key_name"] = ""
    /\ call.arg.cv["KeyName"] = ""
    /\ call.ret.changes = <<"ImageId">>

\* C21: for each of ImageId, InstanceType, KernelId, KeyName the tag is in
\* the list iff the configured value is not empty (None counts as empty)
\* and differs from the instance's value; an empty configured value never
\* gives the tag, an empty instance value against a set one does.
C21_RequiredTagIffConfigSetAndDiffers ==
    (Returned_("compare_to_config") /\ call.ret.raised = "") =>
        \A k \in 1..Len(RequiredAttrs) :
            LET i == call.arg.iv[RequiredAttrs[k][1]]
                c == call.arg.cv[RequiredAttrs[k][2]]
                tagged == RequiredAttrs[k][2] \in Range(call.ret.changes)
            IN  /\ tagged <=> (c \notin {None, ""}
                                /\ (i \in {None, ""} \/ i # c))
                /\ c \in {None, ""} => ~tagged
                /\ (i \in {None, ""} /\ c \notin {None, ""}) => tagged

C21_Witness ==
    /\ Returned_("compare_to_config")
    /\ call.arg.iv["image_id"] = "a"
    /\ call.arg.cv["ImageId"] = ""
    /\ call.arg.iv["key_name"] = ""
    /\ call.arg.cv["KeyName"] = "b"
    /\ call.ret.changes = <<"KeyName">>

\* the value under key k, the empty string when there is none or it is
\* None or empty
ValueOrEmpty(f, k) ==
    IF k \notin DOMAIN f THEN ""
    ELSE IF f[k] \in {None, ""} THEN "" ELSE f[k]

DiffReturned == Returned_("compare_instance_to_config") /\ call.ret.raised = ""

\* C22: IamInstanceProfile is in the list iff the profiles of instance and
\* configuration differ once absent, None and empty are all read as the
\* empty string; an empty configured profile against a set one of the
\* instance gives the tag.
C22_ProfileTagIffDiffers ==
    DiffReturned =>
        LET i == ValueOrEmpty(call.arg.instance, "iam_instance_profile")
            c == ValueOrEmpty(call.arg.config, "IamInstanceProfile")
            tagged == "IamInstanceProfile" \in Range(call.ret.changes)
        IN  /\ tagged <=> i # c
            /\ (c = "" /\ i # "") => tagged

C22_Witness ==
    /\ DiffReturned
    /\ ValueOrEmpty(call.arg.instance, "iam_instance_profile") = "a"
    /\ "IamInstanceProfile" \in DOMAIN call.arg.config
    /\ call.arg.config["IamInstanceProfile"] = None
    /\ call.ret.changes = <<"IamInstanceProfile">>

ScalarTags ==
    <<"UserData", "SecurityGroups", "ImageId", "InstanceType", "KernelId",
      "KeyName", "IamInstanceProfile">>

\* C23: the list is the scalar tags that are in it, each once, in the order
\* UserData, SecurityGroups, ImageId, InstanceType, KernelId, KeyName,
\* IamInstanceProfile, followed by the tags of the volume comparison in the
\* order in which it gave them.
C23_TagsInFixedOrder ==
    DiffReturned =>
        LET changes == call.ret.changes
            present(t) == t \in Range(changes)
            volume_tags ==
                compare_volumes_config(
                    call.arg.instance.volumes,
                    config_volumes_to_dict(call.arg.config.BlockDeviceMappings),
                    call.arg.order)
        IN  /\ changes = SelectSeq(ScalarTags, present) \o volume_tags
            /\ \A t \in Range(ScalarTags) :
                   Cardinality({i \in 1..Len(changes) : changes[i] = t}) <= 1

C23_Witness ==
    /\ DiffReturned
    /\ Len(call.ret.changes) = 10
    /\ SubSeq(call.ret.changes, 1, 7) = ScalarTags
    /\ call.ret.changes[8] = "sda1.BlockDeviceMappings.Ebs.VolumeType"

\* C24: an instance with its four required attributes, compared with a
\* launch configuration that holds the instance's own fields, security
\* groups, volumes and user data, has no differences; and the comparison
\* of the same instance, configuration and volume dict gives the same list
\* again.
C24_RoundTripAndSameAgain ==
    Returned_("compare_instance_to_config") =>
        /\ (/\ RequiredInstanceAttrs \subseteq DOMAIN call.arg.instance
            /\ call.arg.config \in ConfigsFrom(call.arg.instance))
           => call.ret = Returned(<<>>)
        /\ call.ret = compare_instance_to_config(
                          call.arg.instance, call.arg.config, call.arg.order)

C24_Witness ==
    /\ Returned_("compare_instance_to_config")
    /\ DOMAIN call.arg.instance.volumes = {1, 2}
    /\ call.arg.instance.volumes[1] # VolumeWith("gp2", 8, 1, TRUE)
    /\ call.arg.config \in ConfigsFrom(call.arg.instance)
    /\ call.arg.config.BlockDeviceMappings[1].DeviceName = 2
    /\ call.ret = Returned(<<>>)

\* the ids of the instance's security groups, as listed
InstanceSgIds ==
    [i \in 1..Len(call.arg.instance.security_groups) |->
        call.arg.instance.security_groups[i].GroupId]

Occurrences(s, v) == Cardinality({i \in 1..Len(s) : s[i] = v})

\* the two lists hold the same ids the same number of times
SameIds(a, b) ==
    \A v \in Range(a) \cup Range(b) : Occurrences(a, v) = Occurrences(b, v)

\* C25: listing the security groups of the instance or of the configuration
\* in another order never changes the result, and SecurityGroups is in the
\* list iff the two lists, sorted, differ.
C25_SecurityGroupOrderIrrelevant ==
    DiffReturned =>
        /\ ("SecurityGroups" \in Range(call.ret.changes))
               <=> ~SameIds(InstanceSgIds, call.arg.config.SecurityGroups)
        /\ \A p \in Orders(1..Len(InstanceSgIds)),
              q \in Orders(1..Len(call.arg.config.SecurityGroups)) :
               compare_instance_to_config(
                   [call.arg.instance EXCEPT !.security_groups =
                       [i \in 1..Len(p) |-> @[p[i]]]],
                   [call.arg.config EXCEPT !.SecurityGroups =
                       [i \in 1..Len(q) |-> @[q[i]]]],
                   call.arg.order) = call.ret

C25_Witness ==
    /\ DiffReturned
    /\ InstanceSgIds = <<2, 1>>
    /\ call.arg.config.SecurityGroups = <<1, 2>>
    /\ call.ret.changes = <<>>

VolumesReturned == Returned_("compare_volumes_config")

InstanceDevices == DOMAIN call.arg.instance_volumes_dict
ConfigDevices == DOMAIN call.arg.config_volumes_dict

\* one DeviceName tag for each device of the set, in ascending order
DeviceNameTags(devices) ==
    LET names == CHOOSE o \in Orders(devices) :
                     \A j, k \in 1..Len(o) : j < k => o[j] < o[k]
    IN  [k \in 1..Len(names) |-> DeviceNameChange(names[k])]

\* C26: with no volumes configured and exactly one volume on the instance
\* the volume comparison gives the empty list, whatever the volume's
\* device, type, size and flag; with none configured and two or more on
\* the instance every device of the instance is reported.
C26_SingleDefaultVolume ==
    (VolumesReturned /\ ConfigDevices = {}) =>
        /\ Cardinality(InstanceDevices) = 1 => call.ret = <<>>
        /\ Cardinality(InstanceDevices) >= 2 =>
               /\ \A d \in InstanceDevices :
                      DeviceNameChange(d) \in Range(call.ret)
               /\ call.ret = DeviceNameTags(InstanceDevices)

C26_Witness ==
    /\ VolumesReturned
    /\ ConfigDevices = {}
    /\ InstanceDevices = {2}
    /\ call.arg.instance_volumes_dict[2] = VolumeWith("standard", 16, 2, FALSE)
    /\ call.ret = <<>>

SpecialCase == ConfigDevices = {} /\ Cardinality(InstanceDevices) = 1

\* C27: when the special case of the single volume does not apply and the
\* devices of instance and configuration are not the same, the volume
\* comparison gives one DeviceName tag for each device that only one side
\* has, in sorted order, and nothing else.
C27_DeviceNamesOfSymmetricDifference ==
    (VolumesReturned /\ ~SpecialCase /\ InstanceDevices # ConfigDevices) =>
        call.ret = DeviceNameTags((InstanceDevices \ ConfigDevices)
                                  \cup (ConfigDevices \ InstanceDevices))

C27_Witness ==
    /\ VolumesReturned
    /\ InstanceDevices = {1}
    /\ ConfigDevices = {1, 2}
    /\ call.arg.config_volumes_dict[1].Ebs.VolumeType = "standard"
    /\ call.ret = <<"DeviceName:sda2">>

VolumeFields == <<"VolumeType", "Size", "DeleteOnTermination">>

\* the attribute of the device differs between instance and configuration
FieldDiffers(d, f) ==
    LET i == call.arg.instance_volumes_dict[d]
        c == call.arg.config_volumes_dict[d].Ebs
    IN  CASE f = "VolumeType" -> i.VolumeType # c.VolumeType
          [] f = "Size" -> i.Size # c.VolumeSize
          [] f = "DeleteOnTermination" ->
                 i.Attachments[1].DeleteOnTermination # c.DeleteOnTermination

\* the tags expected of one device
ExpectedOfDevice(d) ==
    LET differs(f) == FieldDiffers(d, f)
        fields == SelectSeq(VolumeFields, differs)
    IN  [k \in 1..Len(fields) |-> AttributeChange(d, fields[k])]

TagsOfDevice(d) == {AttributeChange(d, VolumeFields[k]) : k \in 1..3}

\* C28: with the same devices on both sides the volume comparison gives,
\* for each device, the tags of VolumeType, Size and DeleteOnTermination,
\* in that order, of exactly the attributes that differ, and no other tag.
C28_AttributeTagsPerDevice ==
    (VolumesReturned /\ InstanceDevices = ConfigDevices) =>
        /\ \A d \in InstanceDevices :
               LET of_device(t) == t \in TagsOfDevice(d)
               IN  SelectSeq(call.ret, of_device) = ExpectedOfDevice(d)
        /\ \A k \in 1..Len(call.ret) :
               \E d \in InstanceDevices : call.ret[k] \in TagsOfDevice(d)

C28_Witness ==
    /\ VolumesReturned
    /\ InstanceDevices = {1, 2}
    /\ ConfigDevices = {1, 2}
    /\ ExpectedOfDevice(1) = <<>>
    /\ call.ret = <<"sda2.BlockDeviceMappings.Ebs.VolumeType",
                    "sda2.BlockDeviceMappings.Ebs.Size">>

\* the groups of all the pages, in the order answered
ListedGroups ==
    IF Len(call.arg.response) = 1 THEN call.arg.response[1].AutoScalingGroups
    ELSE call.arg.response[1].AutoScalingGroups
         \o call.arg.response[2].AutoScalingGroups

\* the name starts with the text of the pattern (a leading ^ set aside)
NameMatches(g) ==
    LET pat == call.arg.asg_regex_pat
        lit == IF Len(pat) > 0 /\ pat[1] = "^"
               THEN SubSeq(pat, 2, Len(pat)) ELSE pat
    IN  \E n \in 0..Len(g.AutoScalingGroupName) :
            SubSeq(g.AutoScalingGroupName, 1, n) = lit

\* C29: find_asg_group returns exactly the listed groups whose name matches
\* the pattern, in the order listed: none, the one, or all of them.
C29_FindReturnsMatchesInOrder ==
    Returned_("find_asg_group") =>
        call.ret = SelectSeq(ListedGroups, NameMatches)

C29_Witness ==
    /\ Returned_("find_asg_group")
    /\ Len(call.arg.response) = 2
    /\ Len(ListedGroups) = 3
    /\ ListedGroups[1].AutoScalingGroupName = worker
    /\ ListedGroups[2].AutoScalingGroupName = db
    /\ ListedGroups[3].AutoScalingGroupName = web
    /\ call.ret = <<ListedGroups[1], ListedGroups[3]>>

\* a client error whose message has the text throttling somewhere in it
IsThrottlingError(e) ==
    /\ e.class = "ClientError"
    /\ \E i \in 0..Len(e.message), j \in 1..(Len(e.message) + 1) :
           e.message = SubSeq(e.message, 1, i) \o Text("throttling")
                           \o SubSeq(e.message, j, Len(e.message))

\* C30: retry_if_throttled is true of exactly the client errors whose
\* message contains throttling; a retried call that meets any other error,
\* after throttling errors only, ends with that error at the call that met
\* it, and is not made again.
C30_RetryOnlyOnThrottling ==
    /\ Returned_("retry_if_throttled") =>
           (call.ret <=> IsThrottlingError(call.arg.exception))
    /\ Returned_("get_launch_config_for_asg") =>
           \A k \in 1..Len(call.arg.answers) :
               (/\ call.arg.answers[k] # NoError
                /\ ~IsThrottlingError(call.arg.answers[k])
                /\ \A j \in 1..(k - 1) :
                       /\ call.arg.answers[j] # NoError
                       /\ IsThrottlingError(call.arg.answers[j]))
               => call.ret = [attempts |-> k, raised |-> call.arg.answers[k],
                              done |-> TRUE]

C30_Witness ==
    /\ Returned_("get_launch_config_for_asg")
    /\ Len(call.arg.answers) = 3
    /\ call.arg.answers[1] = Throttling
    /\ call.arg.answers[2] =
           ClientError(Text("occurred: ") \o Text("Throttling"), "Throttling")
    /\ call.ret.attempts = 2
    /\ call.ret.raised = call.arg.answers[2]

\* the instances there at the start that differ from the configuration
DriftedAtStart ==
    {i \in 1..Len(Catalogue) :
        /\ inst[i].state # "none"
        /\ Diff(i, launch_config).changes # <<>>}

\* C31: in a real run against a fair provider the upgrade eventually ends
\* in success, and by then every instance that differed at the start has
\* been terminated.
C31_EventuallySuccess ==
    <>(/\ pc = "done"
       /\ outcome.exit_status = 0
       /\ DriftedAtStart \subseteq hist.real_terminated)

\* the run against a fair provider does end, one way or the other
C31_EventuallyEnds == <>(pc \in {"done", "exited"})

WaitReady == pc = "get_instances_to_upgrade"
WaitFailed == pc = "exited"

\* C32: every wait_for_instances ends in Ready or Failed, after at most
\* max_wait_attempts ticks, with the direct and with the tunnelled prober,
\* whatever the provider and the forward do.
C32_WaitEndsReadyOrFailed == <>(WaitReady \/ WaitFailed)

\* the ticks of a wait never exceed max_wait_attempts
C32_AtMostMaxAttempts == current_attempts <= max_wait_attempts

\* the wait ends, if only by an exception
C32_WaitEndsSomehow == <>(WaitReady \/ WaitFailed \/ pc = "raised")

\* with the direct prober the wait ends in Ready or Failed
C32_DirectWaitEnds ==
    ssh_manager.use_bastion_tunnel \/ <>(WaitReady \/ WaitFailed)

\* C33: after a tick that did not reach Ready the wait sleeps first and
\* re-lists afterwards: the listing the next tick counts and probes is the
\* group as it is once the sleep has ended, and no listing is fetched and
\* then dropped by the end of the wait.
C33_SleepThenRelist ==
    [][(pc = "sleep") =>
          (/\ pc' # "exited"
           /\ instances = get_instances_for_asg(asg))]_vars

\* a listing fetched by the wait is evaluated before the wait ends
C33_EveryListingEvaluated == [][(pc = "sleep") => (pc' # "exited")]_vars

\* the listing a tick evaluates was fetched after the sleep before it
C33_ListingAfterSleep ==
    [][(pc = "sleep" /\ pc' # "exited") =>
          (instances = get_instances_for_asg(asg))]_vars

\* the launch configuration the run fetched lacks a required key
MissingRequiredKey ==
    /\ config # <<>>
    /\ \E i \in 1..Len(RequiredAttrs) : RequiredAttrs[i][2] \notin DOMAIN config

\* C34: a run whose launch configuration lacks one of the four required
\* keys never ends in success and never calls terminate, whatever the
\* number of running instances, none included.
C34_MissingKeyNeverSucceeds ==
    MissingRequiredKey => (pc # "done" /\ hist.terminate_calls = 0)

\* with an instance to compare, the run does not get past the comparison
C34_MissingKeyWithInstances ==
    MissingRequiredKey =>
        /\ hist.terminate_calls = 0
        /\ pc \notin {"decide", "terminate"} \/ asg_instances = <<>>
        /\ pc = "done" => asg_instances = <<>>

\* the victim get_oldest_instance picks from the candidates held in order
VictimOf(order) ==
    get_oldest_instance([k \in 1..Len(order) |-> Instance(order[k])]).id

\* C35: the victim is determined by the candidate set: whatever order the
\* candidates are held in, candidates sharing the smallest launch_time
\* included, the same instance is chosen.
C35_VictimIndependentOfOrder ==
    pc = "terminate" =>
        \A order \in Orders(instances_to_upgrade) : VictimOf(order) = victim

\* without a tie on the smallest launch_time the order does not matter
C35_VictimIndependentOfOrderWithoutTie ==
    (/\ pc = "terminate"
     /\ \A i, j \in instances_to_upgrade :
            (i # j) => (Instance(i).launch_time # Instance(j).launch_time))
        => \A order \in Orders(instances_to_upgrade) : VictimOf(order) = victim

\* C36: when an is_ready call is over, whatever its outcome and whatever
\* the prober's state before it, the prober is disconnected; so an is_ready
\* call that follows an is_ready call never fails in connect with
\* "Already connected".
C36_DisconnectedAfterIsReady ==
    call.op = "is_ready" =>
        /\ ~ssh_manager.connected
        /\ ssh_manager.session = "closed"
        /\ call.arg.prev = "is_ready" =>
              /\ ~call.arg.before.connected
              /\ connect(call.arg.before, call.arg.env).raised # "IOError"

\* is_ready was called on a connected prober and on one whose connect
\* succeeded, and left both disconnected
C36_Witness ==
    /\ call.op = "is_ready"
    /\ call.arg.prev = "connect"
    /\ call.arg.before.connected
    /\ call.arg.before.session = "open"
    /\ ~ssh_manager.connected

\* an is_ready call whose connect succeeded followed an is_ready call
C36_WitnessInSequence ==
    /\ call.op = "is_ready"
    /\ call.arg.prev = "is_ready"
    /\ call.ret.value
    /\ ~ssh_manager.connected

====
